---- MODULE Spec2Model ----
(***************************************************************************)
(* A model of the merci SDK (src/lib/merci.2.11.0.mjs). From the v2.14.0   *)
(* half of the file: the SSE parser, ChatSession.stream, ChatSession.step, *)
(* ChatSession.run, executeTools, ParameterBuilder, the parameter          *)
(* registry, buildParametersArray, InternalHttpClient._fetchWithRetry and  *)
(* TaskAPI.stream. From the v2.11.0 half: the SSE parser,                  *)
(* ChatSession.run, MerciClient._fetchWithRetry with _refreshToken and the *)
(* validating ParameterBuilder.                                            *)
(*                                                                         *)
(* Text is a sequence of one-character strings, so the empty string is <<>>*)
(* and string concatenation is \o. A wire line is a record that names the  *)
(* kind of the line and the fields its JSON payload carries.               *)
(***************************************************************************)
EXTENDS Integers, Sequences, FiniteSets, TLC

VARIABLES
    \* ---- one ChatSession.stream call (SpecStream) ----
    streamPc,             \* "reading" | "done" | "failed" (SSEError thrown)
    consumed,             \* the wire lines handed to the line loop so far
    toolCallsInProgress,  \* SSEParser.toolCallsInProgress, in Map insertion order
    finalizedToolCalls,   \* SSEParser.finalizedToolCalls
    sortedCalls,          \* the sorted entries of the most recent flush
    events,               \* the events the stream generator has yielded
    \* ---- one ChatSession.run call (SpecAgent) ----
    maxIterations,        \* options.maxIterations
    initialInput,         \* the caller's history
    runPc,                \* position of run
    i,                    \* the loop counter of run
    messages,             \* run's messages
    result,               \* the text run resolved with
    stepPc,               \* position of the step generator
    stepMessages,         \* step's messages parameter
    forceTextResponse,    \* step's options.forceTextResponse
    streamEvents,         \* the events the turn's stream yields
    streamThrows,         \* whether the turn's stream ends by throwing
    evPos,                \* how many of streamEvents step has consumed
    toolCalls,            \* step's toolCalls
    assistantResponse,    \* step's assistantResponse
    finalMessages,        \* step's finalMessages
    toolResults,          \* what executeTools resolved with
    stepValue,            \* the value of step's last yield or return
    promises,             \* executionPromises of the batch run is executing
    settleOrder,          \* the indices of executionPromises, in settling order
    log,                  \* requests, emitted events, yields and returns, in order
    callerArray,          \* the array the caller passed to run, as it is now
    streamError,          \* the error the turn's stream ends with
    runError,             \* the error run rejected with
    \* ---- one ChatSession and the requests it builds ----
    profile,              \* ChatSession.#profile
    tools,                \* ChatSession.#tools: the names of the tools
    systemMessage,        \* ChatSession.#systemMessage
    parameters,           \* ChatSession.#parameters, in key insertion order
    sessionForStream,     \* the session the last step streamed from
    requestBody,          \* the request body last built
    configured,           \* the session as the with* calls left it
    history,              \* the messages the caller calls stream and step with
    parametersData,       \* what buildParametersArray last returned
    warnings,             \* the parameter_warning events of the last build
    \* ---- one InternalHttpClient (SpecTransport) ----
    token,                \* InternalHttpClient.#token
    fetchPc,              \* position of _fetchWithRetry
    isRetry,              \* the isRetry argument of the running _fetchWithRetry
    fetchPath,            \* the path argument of the outermost _fetchWithRetry
    fetchCalls,           \* how many times the client has been called
    fetchLog,             \* fetches sent and events emitted by the current call
    fetchError,           \* the error the current call threw
    lastResponse,         \* the response the last settled fetch got
    fetchStack,           \* the _fetchWithRetry calls of v2.11.0 that have not returned
    inFlight,             \* the concurrent _fetchWithRetry calls on one client
    \* ---- one ParameterBuilder and the session it configures (SpecBuilder) ----
    builderVersion,       \* the SDK version the ParameterBuilder is taken from
    objects,              \* the parameter objects on the heap, by reference
    parametersRef,        \* ChatSession.#parameters: a reference into objects
    built,                \* what _build returned, and its content at that time
    lastCall,             \* the last setter call and how it ended
    \* ---- one TaskAPI.stream call (SpecTaskStream) ----
    taskPc,               \* "reading" | "done" | "failed" (SSEError thrown)
    taskConsumed,         \* the wire lines handed to the line loop so far
    taskEvents,           \* the events the task stream generator has yielded
    \* ---- one ChatSession.stream call reading chunks (SpecChunks) ----
    wireText,             \* the text of the response body
    delivered,            \* the sizes of the chunks read so far
    buffer,               \* `buffer` of stream
    \* ---- an SSEParser of v2.11.0 beside one of v2.14.0 (SpecParsers) ----
    parserV211,           \* the lists of the SSEParser of v2.11.0
    returned              \* what the last parseLine of either parser returned

streamVars == <<streamPc, consumed, toolCallsInProgress, finalizedToolCalls,
                sortedCalls, events>>
agentVars  == <<maxIterations, initialInput, runPc, i, messages, result, stepPc,
                stepMessages, forceTextResponse, streamEvents, streamThrows,
                evPos, toolCalls, assistantResponse, finalMessages, toolResults,
                stepValue, promises, settleOrder, log, callerArray, streamError,
                runError>>
sessionVars == <<profile, tools, systemMessage, parameters, sessionForStream,
                 requestBody, configured, history, parametersData, warnings>>
transportVars == <<token, fetchPc, isRetry, fetchPath, fetchCalls, fetchLog,
                   fetchError, lastResponse, fetchStack, inFlight>>
builderVars == <<builderVersion, objects, parametersRef, built, lastCall>>
taskVars == <<taskPc, taskConsumed, taskEvents>>
chunkVars == <<wireText, delivered, buffer>>
parsersVars == <<parserV211, returned>>
clientVars == <<transportVars, builderVars, taskVars, chunkVars, parsersVars>>
vars == <<streamVars, agentVars, sessionVars, clientVars>>

(***************************************************************************)
(* Bounds                                                                  *)
(***************************************************************************)
MaxLines == 4        \* wire lines of one stream (SpecStream)
MaxTurnLines == 3    \* wire lines of the stream of one turn (SpecAgent)
MaxBudget == 2       \* the largest maxIterations run is called with
MaxParams == 2       \* setter calls of one withParameters (SpecParams)
MaxSessionParams == 1  \* setter calls of one withParameters (SpecSession)
MaxFetchCalls == 2   \* calls of _fetchWithRetry by the API classes (SpecTransport)
MaxBuilderCalls == 2 \* setter calls on one ParameterBuilder (SpecBuilder)
MaxRefreshDepth == 2 \* refresh calls nested in one _fetchWithRetry of v2.11.0
MaxWireLen == 5      \* characters of one response body (SpecChunks)

(***************************************************************************)
(* Values                                                                  *)
(***************************************************************************)
Null   == "null"     \* JavaScript null
Absent == "absent"   \* a field the JSON payload does not carry (undefined)
NoIdx  == -1         \* a ToolCall payload without parallelToolIndex
NoLine == [kind |-> "none"]

Line(kind, idx, id, name, content, reason) ==
    [kind |-> kind, idx |-> idx, id |-> id, name |-> name,
     content |-> content, reason |-> reason]

Plain(kind)          == Line(kind, NoIdx, Absent, Absent, <<>>, Absent)
ContentLine(c)       == Line("Content", NoIdx, Absent, Absent, c, Absent)
FinishLine(r)        == Line("FinishMetadata", NoIdx, Absent, Absent, <<>>, r)
Fragment(x, id, n, c) == Line("ToolCall", x, id, n, c, Absent)

\* Lines that carry no event: "blank" fails line.trim(), "comment" lacks the
\* 'data: ' prefix, "end" is the sentinel, "Other" is an unknown payload type,
\* "malformed" is a data line whose payload is not JSON.
StreamLines ==
    { Plain("blank"), Plain("comment"), Plain("end"), Plain("Other"),
      Plain("malformed"), Plain("QuotaMetadata"),
      ContentLine(<<"a">>),
      FinishLine("tool_calls"), FinishLine("stop"), FinishLine("length") }
    \cup { Fragment(x, "c", "f", <<"{">>) : x \in 0..2 }
    \cup { Fragment(0, Absent, Absent, <<"}">>),
           Fragment(NoIdx, Absent, Absent, <<"x">>),
           Fragment(0, "d", Absent, <<>>) }

(***************************************************************************)
(* SSEParser                                                               *)
(***************************************************************************)
NewParser == [finalizedToolCalls |-> <<>>, toolCallsInProgress |-> <<>>]

\* `if (parsed.id)`, `if (parsed.content)`: a missing, null or empty id or name
\* is written Absent; the only falsy text is the empty one.
Truthy(v) == v # Absent
NonEmpty(c) == c # <<>>

\* Map.has / position of the entry of key idx
HasIdx(map, idx) == \E k \in 1..Len(map) : map[k].idx = idx
PosOf(map, idx)  == CHOOSE k \in 1..Len(map) : map[k].idx = idx

\* MergeFragment with `arguments = parsed.content` in place of `+=`
MergeFragmentOverwrite(map, line) ==
    LET idx  == IF line.idx = NoIdx THEN 0 ELSE line.idx
        map1 == IF HasIdx(map, idx) THEN map
                ELSE Append(map, [idx |-> idx,
                                  call |-> [id |-> Null, name |-> Null,
                                            arguments |-> <<>>]])
        k    == PosOf(map1, idx)
        c0   == map1[k].call
        c1   == IF Truthy(line.id) THEN [c0 EXCEPT !.id = line.id] ELSE c0
        c2   == IF Truthy(line.name) THEN [c1 EXCEPT !.name = line.name] ELSE c1
        c3   == IF NonEmpty(line.content)
                THEN [c2 EXCEPT !.arguments = line.content]
                ELSE c2
    IN  [map1 EXCEPT ![k].call = c3]

\* case 'ToolCall'
MergeFragment(map, line) ==
    LET idx  == IF line.idx = NoIdx THEN 0 ELSE line.idx
        map1 == IF HasIdx(map, idx) THEN map
                ELSE Append(map, [idx |-> idx,
                                  call |-> [id |-> Null, name |-> Null,
                                            arguments |-> <<>>]])
        k    == PosOf(map1, idx)
        c0   == map1[k].call
        c1   == IF Truthy(line.id) THEN [c0 EXCEPT !.id = line.id] ELSE c0
        c2   == IF Truthy(line.name) THEN [c1 EXCEPT !.name = line.name] ELSE c1
        c3   == IF NonEmpty(line.content)
                THEN [c2 EXCEPT !.arguments = c2.arguments \o line.content]
                ELSE c2
    IN  [map1 EXCEPT ![k].call = c3]

\* SortEntries without the sort: the entries in Map insertion order
SortEntriesInsertionOrder(map) == map

\* Array.from(entries()).sort(([a], [b]) => a - b)
RECURSIVE SortEntries(_)
SortEntries(map) ==
    IF map = <<>> THEN <<>>
    ELSE LET m == CHOOSE k \in 1..Len(map) :
                      \A j \in 1..Len(map) : map[k].idx <= map[j].idx
             rest == [j \in 1..(Len(map) - 1) |->
                          IF j < m THEN map[j] ELSE map[j + 1]]
         IN  <<map[m]>> \o SortEntries(rest)

CallsOf(entries) == [k \in 1..Len(entries) |-> entries[k].call]

\* FlushReasons with the reason "length" added
FlushReasonsWithLength == {"tool_call", "tool_calls", "stop", "length"}

FlushReasons == {"tool_call", "tool_calls", "stop"}
IsFlush(line) == line.kind = "FinishMetadata" /\ line.reason \in FlushReasons

NoEvent == [type |-> "none"]

\* ParseLine whose flush leaves out `this.toolCallsInProgress.clear()`
ParseLineKeepsAccumulator(p, line) ==
    LET same == [parser |-> p, event |-> NoEvent, thrown |-> FALSE]
    IN  CASE line.kind = "comment" -> same
          [] line.kind = "end" -> same
          [] line.kind = "malformed" -> [same EXCEPT !.thrown = TRUE]
          [] line.kind = "Content" ->
                [same EXCEPT !.event = [type |-> "text", content |-> line.content]]
          [] line.kind = "ToolCall" ->
                [same EXCEPT !.parser.toolCallsInProgress =
                                 MergeFragment(p.toolCallsInProgress, line)]
          [] line.kind = "FinishMetadata" ->
                IF line.reason \in FlushReasons
                THEN [same EXCEPT
                        !.parser.finalizedToolCalls =
                            p.finalizedToolCalls
                              \o CallsOf(SortEntries(p.toolCallsInProgress))]
                ELSE same
          [] line.kind = "QuotaMetadata" -> [same EXCEPT !.event = [type |-> "quota"]]
          [] OTHER -> same

\* SSEParser.parseLine: the parser afterwards, the event returned (NoEvent for
\* null) and whether SSEError was thrown.
ParseLine(p, line) ==
    LET same == [parser |-> p, event |-> NoEvent, thrown |-> FALSE]
    IN  CASE line.kind = "comment" -> same
          [] line.kind = "end" -> same
          [] line.kind = "malformed" -> [same EXCEPT !.thrown = TRUE]
          [] line.kind = "Content" ->
                [same EXCEPT !.event = [type |-> "text", content |-> line.content]]
          [] line.kind = "ToolCall" ->
                [same EXCEPT !.parser.toolCallsInProgress =
                                 MergeFragment(p.toolCallsInProgress, line)]
          [] line.kind = "FinishMetadata" ->
                IF line.reason \in FlushReasons
                THEN [same EXCEPT
                        !.parser.finalizedToolCalls =
                            p.finalizedToolCalls
                              \o CallsOf(SortEntries(p.toolCallsInProgress)),
                        !.parser.toolCallsInProgress = <<>>]
                ELSE same
          [] line.kind = "QuotaMetadata" -> [same EXCEPT !.event = [type |-> "quota"]]
          [] OTHER -> same

(***************************************************************************)
(* ChatSession.stream                                                      *)
(***************************************************************************)
Parser == [finalizedToolCalls |-> finalizedToolCalls,
           toolCallsInProgress |-> toolCallsInProgress]

\* `if (line.trim()) { const event = parser.parseLine(line); if (event) yield event; }`
HandleLine(p, line) ==
    IF line.kind \in {"blank", "none"}
    THEN [parser |-> p, event |-> NoEvent, thrown |-> FALSE]
    ELSE ParseLine(p, line)

\* Yielded that puts the new event in front of the earlier ones
YieldedFirst(evs, r) ==
    IF r.event = NoEvent \/ r.thrown THEN evs ELSE <<r.event>> \o evs

\* `if (event) yield event;`
Yielded(evs, r) == IF r.event = NoEvent \/ r.thrown THEN evs ELSE Append(evs, r.event)

\* ToolCallsEvent without the length test
ToolCallsEventAlways(calls) == <<[type |-> "tool_calls", calls |-> calls]>>

\* getFinalResult and the closing yield
ToolCallsEvent(calls) ==
    IF Len(calls) > 0 THEN <<[type |-> "tool_calls", calls |-> calls]>> ELSE <<>>

\* ChatSession.#systemMessage: null, or a text.
NoSystemMessage == [isNull |-> TRUE, content |-> <<>>]
SystemMessage(content) == [isNull |-> FALSE, content |-> content]

\* The fields of a ChatSession.
Session(name, toolList, sysMsg, params) ==
    [profile |-> name, tools |-> toolList, systemMessage |-> sysMsg,
     parameters |-> params]

\* `new ChatSession(httpClient, profile)`
NewSession(name) == Session(name, <<>>, NoSystemMessage, <<>>)

NoSession == NewSession("none")
NoRequest ==
    [sent |-> FALSE, op |-> "none", forced |-> FALSE, afterForced |-> FALSE,
     history |-> <<>>, threw |-> FALSE, profile |-> "none", messages |-> <<>>,
     used |-> <<>>]
NotBuilt == [built |-> FALSE, threw |-> FALSE, data |-> <<>>]

\* step has neither yielded nor returned.
NoValue == [type |-> "none"]

\* Nothing has been thrown.
NoError == [name |-> "none", status |-> 0]

\* The errors of the SDK, and the TypeError of the runtime.
APIError(status) == [name |-> "APIError", status |-> status]
APIStatusError(status) == [name |-> "APIStatusError", status |-> status]
SSEError == [name |-> "SSEError", status |-> 0]
TypeError == [name |-> "TypeError", status |-> 0]

\* parseLine has not been called on either parser.
NoReturns ==
    [v211 |-> [event |-> [type |-> "none"], thrown |-> FALSE],
     v214 |-> [event |-> [type |-> "none"], thrown |-> FALSE]]

\* No fetch has settled yet.
NoResponse ==
    [rejects |-> FALSE, status |-> 0, hasBody |-> FALSE, token |-> "absent"]

\* _build has not been called; no setter has been called.
NotReturned == [ref |-> 0, map |-> <<>>]
NoCall ==
    [method |-> "none", arg |-> <<>>, threw |-> FALSE, before |-> <<>>, count |-> 0]

\* No session is being looked at.
SessionIdle ==
    /\ profile = "none" /\ tools = <<>> /\ systemMessage = NoSystemMessage
    /\ parameters = <<>> /\ sessionForStream = NoSession
    /\ requestBody = NoRequest /\ configured = NoSession /\ history = <<>>
    /\ parametersData = NotBuilt /\ warnings = <<>>

AgentIdle ==
    /\ maxIterations = 0 /\ initialInput = [isArray |-> TRUE, value |-> <<>>]
    /\ runPc = "idle" /\ i = 0
    /\ messages = <<>> /\ result = <<>> /\ stepPc = "idle" /\ stepMessages = <<>>
    /\ forceTextResponse = FALSE /\ streamEvents = <<>> /\ streamThrows = FALSE
    /\ evPos = 0 /\ toolCalls = <<>> /\ assistantResponse = <<>>
    /\ finalMessages = <<>> /\ toolResults = <<>> /\ stepValue = NoValue
    /\ promises = <<>> /\ settleOrder = <<>>
    /\ log = <<>>
    /\ callerArray = <<>> /\ streamError = NoError /\ runError = NoError

\* No request is being sent.
TransportIdle ==
    /\ token = "none" /\ fetchPc = "idle" /\ isRetry = FALSE
    /\ fetchPath = "none" /\ fetchCalls = 0 /\ fetchLog = <<>>
    /\ fetchError = NoError /\ lastResponse = NoResponse
    /\ fetchStack = <<>> /\ inFlight = <<>>

\* No builder is being looked at.
BuilderIdle ==
    /\ builderVersion = "none" /\ objects = <<>> /\ parametersRef = 0
    /\ built = NotReturned /\ lastCall = NoCall

\* No task is being streamed.
TaskIdle == taskPc = "idle" /\ taskConsumed = <<>> /\ taskEvents = <<>>

\* No chunked response is being read.
ChunkIdle == wireText = <<>> /\ delivered = <<>> /\ buffer = <<>>

\* No pair of parsers is being looked at.
ParsersIdle == parserV211 = NewParser /\ returned = NoReturns

ClientIdle ==
    TransportIdle /\ BuilderIdle /\ TaskIdle /\ ChunkIdle /\ ParsersIdle

StreamInit ==
    /\ streamPc = "reading"
    /\ consumed = <<>>
    /\ toolCallsInProgress = NewParser.toolCallsInProgress
    /\ finalizedToolCalls = NewParser.finalizedToolCalls
    /\ sortedCalls = <<>>
    /\ events = <<>>
    /\ AgentIdle
    /\ SessionIdle
    /\ ClientIdle

\* StreamLine that reads on after a line that made parseLine throw
StreamLineReadsOn ==
    /\ streamPc = "reading"
    /\ Len(consumed) < MaxLines
    /\ \E line \in StreamLines :
         LET r == HandleLine(Parser, line) IN
           /\ consumed' = Append(consumed, line)
           /\ toolCallsInProgress' = r.parser.toolCallsInProgress
           /\ finalizedToolCalls' = r.parser.finalizedToolCalls
           /\ sortedCalls' = IF IsFlush(line) THEN SortEntries(toolCallsInProgress)
                             ELSE sortedCalls
           /\ events' = Yielded(events, r)
           /\ streamPc' = "reading"
    /\ UNCHANGED agentVars
    /\ UNCHANGED sessionVars
    /\ UNCHANGED clientVars

\* One line of the line loop of stream.
StreamLine ==
    /\ streamPc = "reading"
    /\ Len(consumed) < MaxLines
    /\ \E line \in StreamLines :
         LET r == HandleLine(Parser, line) IN
           /\ consumed' = Append(consumed, line)
           /\ toolCallsInProgress' = r.parser.toolCallsInProgress
           /\ finalizedToolCalls' = r.parser.finalizedToolCalls
           /\ sortedCalls' = IF IsFlush(line) THEN SortEntries(toolCallsInProgress)
                             ELSE sortedCalls
           /\ events' = Yielded(events, r)
           /\ streamPc' = IF r.thrown THEN "failed" ELSE "reading"
    /\ UNCHANGED agentVars
    /\ UNCHANGED sessionVars
    /\ UNCHANGED clientVars

\* The byte stream ends: the rest of the buffer (a last line without a newline,
\* if any) is parsed, then the finalized calls are yielded.
StreamEnd ==
    /\ streamPc = "reading"
    /\ \E tail \in (IF Len(consumed) < MaxLines THEN StreamLines ELSE {}) \cup {NoLine} :
         LET r == HandleLine(Parser, tail) IN
           /\ consumed' = IF tail = NoLine THEN consumed ELSE Append(consumed, tail)
           /\ toolCallsInProgress' = r.parser.toolCallsInProgress
           /\ finalizedToolCalls' = r.parser.finalizedToolCalls
           /\ sortedCalls' = IF tail # NoLine /\ IsFlush(tail)
                             THEN SortEntries(toolCallsInProgress)
                             ELSE sortedCalls
           /\ events' = IF r.thrown THEN events
                        ELSE Yielded(events, r)
                               \o ToolCallsEvent(r.parser.finalizedToolCalls)
           /\ streamPc' = IF r.thrown THEN "failed" ELSE "done"
    /\ UNCHANGED agentVars
    /\ UNCHANGED sessionVars
    /\ UNCHANGED clientVars

StreamNext == StreamLine \/ StreamEnd

SpecStream == StreamInit /\ [][StreamNext]_vars

(***************************************************************************)
(* Messages, tools                                                         *)
(***************************************************************************)
createUserMessage(content) == [type |-> "user_message", content |-> content]
createSystemMessage(content) == [type |-> "system_message", content |-> content]
createAssistantTextMessage(content) ==
    [type |-> "assistant_message_text", content |-> content]
createAssistantToolCallMessage(id, toolName, content) ==
    [type |-> "assistant_message_tool", id |-> id, toolName |-> toolName,
     content |-> content]
createToolResultMessage(id, toolName, res) ==
    [type |-> "tool_message", id |-> id, toolName |-> toolName, result |-> res]

\* JSON.stringify of a value: the value marked as serialized.
JSONStringify(v) == [json |-> v]

\* JSON.parse accepts the text: of the texts the wire alphabet can build, "{}"
\* is the one that is JSON.
JSONParses(text) == text = <<"{", "}">>

\* The tool lists a session is given (withTools): the names of the tools, each
\* of them with an execute.
ToolLibraries == { <<"f">>, <<"f", "g">> }

\* `toolMap.get(call.name)` finds a tool with an execute.
HasTool(toolLibrary, name) ==
    \E k \in 1..Len(toolLibrary) : toolLibrary[k] = name

\* What the execute of a tool does: that of f returns a value, throws an Error,
\* or throws a value that has no properties at all (null, undefined); that of
\* g returns a value.
ExecuteOutcomes(name) ==
    IF name = "f" THEN {"returns", "throwsError", "throwsNull"} ELSE {"returns"}

\* A promise of executionPromises. A failure's `value` is its error text, and
\* <<>> stands for an error that is undefined.
NoResult == [name |-> Null, success |-> FALSE, value |-> <<>>]
Pending == [state |-> "pending", result |-> NoResult]
Fulfilled(r) == [state |-> "fulfilled", result |-> r]
RejectedPromise == [state |-> "rejected", result |-> NoResult]

\* The async mapper of executeTools, run up to its first await: an unknown tool
\* and arguments that do not parse settle the promise at once, otherwise
\* tool.execute has been called and the promise is pending.
ExecuteOne(call, toolLibrary) ==
    IF ~HasTool(toolLibrary, call.name)
    THEN Fulfilled([name |-> call.name, success |-> FALSE, value |-> <<"not found">>])
    ELSE IF ~JSONParses(IF call.arguments = <<>> THEN <<"{", "}">> ELSE call.arguments)
    THEN Fulfilled([name |-> call.name, success |-> FALSE, value |-> <<"SyntaxError">>])
    ELSE Pending

\* The rest of the mapper, once tool.execute has settled: the result object,
\* or, when the catch block itself throws on `e.message`, a rejected promise.
SettleOne(call, outcome) ==
    CASE outcome = "returns" ->
           Fulfilled([name |-> call.name, success |-> TRUE, value |-> <<"v">>])
      [] outcome = "throwsError" ->
           Fulfilled([name |-> call.name, success |-> FALSE, value |-> <<"e">>])
      [] OTHER -> RejectedPromise

\* `toolCalls.map(async (call) => ...)`: every mapper is started, in call order.
executeTools(calls, toolLibrary) ==
    [k \in 1..Len(calls) |-> ExecuteOne(calls[k], toolLibrary)]

\* The promises of executionPromises that settled inside the map, in call order.
SettledAtStart(ps) ==
    LET RECURSIVE From(_)
        From(k) == IF k > Len(ps) THEN <<>>
                   ELSE (IF ps[k].state # "pending" THEN <<k>> ELSE <<>>) \o From(k + 1)
    IN  From(1)

\* AllFulfilled with Promise.any for Promise.all
SomeFulfilled(ps) ==
    /\ \E k \in 1..Len(ps) : ps[k].state = "fulfilled"
    /\ \A k \in 1..Len(ps) : ps[k].state # "rejected"

\* Promise.all resolves: every promise is fulfilled.
AllFulfilled(ps) == \A k \in 1..Len(ps) : ps[k].state = "fulfilled"

\* Promise.all rejects: one of the promises is rejected.
Rejected(ps) == \E k \in 1..Len(ps) : ps[k].state = "rejected"

\* PromiseAll that collects the results in the order the promises settled
PromiseAllSettleOrder(ps, order) ==
    [k \in 1..Len(order) |-> ps[order[k]].result]

\* The array Promise.all resolves with: the results by index, whatever the
\* order the promises settled in.
PromiseAll(ps, order) == [k \in 1..Len(ps) |-> ps[k].result]

(***************************************************************************)
(* The stream of one turn, as step sees it                                 *)
(***************************************************************************)
\* The lines of a response: text, a call of the tool f (twice over, its
\* arguments are no longer JSON), a call of a tool the session does not have,
\* the finish signal, a malformed line.
TurnLines ==
    { ContentLine(<<"a">>), ContentLine(<<"b">>),
      Fragment(0, "c", "f", <<"{", "}">>),
      Fragment(1, "d", "g", <<>>),
      FinishLine("tool_calls"), Plain("malformed") }

TurnStreams == UNION { [1..n -> TurnLines] : n \in 0..MaxTurnLines }

\* ChatSession.stream run over all the lines of a response: the events it
\* yields and whether it ends by throwing SSEError.
RECURSIVE StreamOf(_, _, _)
StreamOf(p, lines, evs) ==
    IF lines = <<>>
    THEN [events |-> evs \o ToolCallsEvent(p.finalizedToolCalls), throws |-> FALSE]
    ELSE LET r == HandleLine(p, Head(lines)) IN
         IF r.thrown THEN [events |-> evs, throws |-> TRUE]
         ELSE StreamOf(r.parser, Tail(lines), Yielded(evs, r))

\* What the stream of a turn can be.
TurnOutcomes == { StreamOf(NewParser, lines, <<>>) : lines \in TurnStreams }

(***************************************************************************)
(* ChatSession.step and ChatSession.run                                    *)
(***************************************************************************)
FallbackText ==
    <<"The model reached the maximum tool iteration limit and could not provide a final text response.">>

\* `for (let i = 0; i < maxIterations; i++)` with `<=` for `<`
LoopContinuesInclusive(k, n) == k <= n

\* `i < maxIterations`
LoopContinues(k, n) == k < n

\* isLastIteration one turn late
IsLastIterationLate(k, n) == k = n

\* `const isLastIteration = (i === maxIterations - 1)`
IsLastIteration(k, n) == k = n - 1

\* AppendText with `=` for `+=`
ReplaceText(response, content) == content

\* `assistantResponse += event.content`
AppendText(response, content) == response \o content

\* AppendToolExchange that pushes every call entry before any result entry
AppendToolExchangeGrouped(msgs, calls, results) ==
    msgs
      \o [k \in 1..Len(results) |->
            createAssistantToolCallMessage(calls[k].id, calls[k].name,
                                           calls[k].arguments)]
      \o [k \in 1..Len(results) |->
            createToolResultMessage(calls[k].id, calls[k].name,
                JSONStringify(IF results[k].success THEN results[k].value
                              ELSE [error |-> results[k].value]))]

\* `toolExecutionResults.forEach((result, index) => { ... })`
RECURSIVE AppendToolExchange(_, _, _)
AppendToolExchange(msgs, calls, results) ==
    IF results = <<>> THEN msgs
    ELSE LET call == Head(calls)
             res == Head(results)
             resultValue == IF res.success THEN res.value
                            ELSE [error |-> IF res.value # <<>> THEN res.value
                                            ELSE <<"Unknown execution error">>]
         IN  AppendToolExchange(
                 msgs \o <<createAssistantToolCallMessage(call.id, call.name,
                                                          call.arguments),
                           createToolResultMessage(call.id, call.name,
                                                   JSONStringify(resultValue))>>,
                 Tail(calls), Tail(results))

LogEntry(kind) == [kind |-> kind, turn |-> i, forced |-> forceTextResponse]

\* step returns: the entry keeps the content of the value returned
ReturnEntry ==
    [kind |-> "step_return", turn |-> i, forced |-> forceTextResponse,
     content |-> assistantResponse]

InitialInputs ==
    { [isArray |-> FALSE, value |-> <<"q">>],
      [isArray |-> TRUE, value |-> <<>>],
      [isArray |-> TRUE, value |-> <<createSystemMessage(<<"s">>),
                                     createUserMessage(<<"q">>)>>] }

\* `withSystemMessage(content)` of the session run is called on: none for the
\* empty history, one for the history that holds a system message, either for
\* the prompt.
RunSystemMessages(input) ==
    IF input.isArray
    THEN IF input.value = <<>> THEN {NoSystemMessage}
         ELSE {SystemMessage(<<"s">>)}
    ELSE {NoSystemMessage, SystemMessage(<<"s">>)}

StreamIdle ==
    /\ streamPc = "idle" /\ consumed = <<>> /\ toolCallsInProgress = <<>>
    /\ finalizedToolCalls = <<>> /\ sortedCalls = <<>> /\ events = <<>>

\* run has been called: `messages` is set, the loop is about to be entered.
AgentInit ==
    /\ StreamIdle
    /\ profile = "none" /\ tools \in ToolLibraries
    /\ parameters = <<>>
    /\ sessionForStream = NoSession /\ requestBody = NoRequest
    /\ configured = NoSession /\ history = <<>>
    /\ parametersData = NotBuilt /\ warnings = <<>>
    /\ maxIterations \in 0..MaxBudget
    /\ initialInput \in InitialInputs
    /\ systemMessage \in RunSystemMessages(initialInput)
    /\ messages = IF initialInput.isArray THEN initialInput.value
                  ELSE <<createUserMessage(initialInput.value)>>
    /\ runPc = "loop" /\ i = 0 /\ result = <<>>
    /\ stepPc = "idle" /\ stepMessages = <<>> /\ forceTextResponse = FALSE
    /\ streamEvents = <<>> /\ streamThrows = FALSE /\ evPos = 0
    /\ toolCalls = <<>> /\ assistantResponse = <<>> /\ finalMessages = <<>>
    /\ toolResults = <<>> /\ stepValue = NoValue /\ log = <<>>
    /\ promises = <<>> /\ settleOrder = <<>>
    /\ callerArray = IF initialInput.isArray THEN initialInput.value ELSE <<>>
    /\ streamError = NoError /\ runError = NoError
    /\ ClientIdle

\* One pass of the loop head of run: the warning on the last iteration, then
\* step is called and started, and step's stream sends the model request.
RunIterate ==
    /\ runPc = "loop"
    /\ LoopContinues(i, maxIterations)
    /\ LET isLastIteration == IsLastIteration(i, maxIterations)
           request == [kind |-> "request", turn |-> i, forced |-> isLastIteration]
       IN  /\ forceTextResponse' = isLastIteration
           /\ log' = IF isLastIteration
                     THEN log \o <<[kind |-> "tool_warning", turn |-> i,
                                    forced |-> isLastIteration], request>>
                     ELSE Append(log, request)
    /\ stepMessages' = messages
    /\ finalMessages' = messages
    /\ toolCalls' = <<>>
    /\ assistantResponse' = <<>>
    /\ toolResults' = <<>>
    /\ streamEvents' = <<>> /\ streamThrows' = FALSE /\ evPos' = 0
    /\ stepValue' = NoValue
    /\ stepPc' = "requested"
    /\ runPc' = "awaitingStep"
    /\ UNCHANGED <<promises, settleOrder, callerArray, streamError, runError, maxIterations, initialInput, i, messages, result>>
    /\ UNCHANGED streamVars
    /\ UNCHANGED sessionVars
    /\ UNCHANGED clientVars

\* The service answers the request with a stream of lines.
ModelResponds ==
    /\ stepPc = "requested"
    /\ \E s \in TurnOutcomes :
           /\ streamEvents' = s.events
           /\ streamThrows' = s.throws
           /\ streamError' = IF s.throws THEN SSEError ELSE NoError
    /\ stepPc' = "streaming"
    /\ UNCHANGED <<promises, settleOrder, callerArray, runError, maxIterations, initialInput, runPc, i, messages, result,
                   stepMessages, forceTextResponse, evPos, toolCalls,
                   assistantResponse, finalMessages, toolResults, stepValue, log>>
    /\ UNCHANGED streamVars
    /\ UNCHANGED sessionVars
    /\ UNCHANGED clientVars

\* What _fetchWithRetry throws when the request of a turn fails.
RequestErrors == { APIStatusError(500), APIError(200) }

\* The request of the turn fails: _fetchWithRetry throws inside stream, before
\* stream has yielded anything.
RequestFails ==
    /\ stepPc = "requested"
    /\ \E e \in RequestErrors :
           /\ streamEvents' = <<>>
           /\ streamThrows' = TRUE
           /\ streamError' = e
    /\ stepPc' = "streaming"
    /\ UNCHANGED <<promises, settleOrder, callerArray, runError, maxIterations,
                   initialInput, runPc, i, messages, result,
                   stepMessages, forceTextResponse, evPos, toolCalls,
                   assistantResponse, finalMessages, toolResults, stepValue, log>>
    /\ UNCHANGED streamVars
    /\ UNCHANGED sessionVars
    /\ UNCHANGED clientVars

\* One pass of `for await (const event of stream)` in step.
StepConsumeEvent ==
    /\ stepPc = "streaming"
    /\ evPos < Len(streamEvents)
    /\ LET event == streamEvents[evPos + 1] IN
         /\ assistantResponse' = IF event.type = "text"
                                 THEN AppendText(assistantResponse, event.content)
                                 ELSE assistantResponse
         /\ toolCalls' = IF event.type = "tool_calls" THEN event.calls ELSE toolCalls
    /\ evPos' = evPos + 1
    /\ UNCHANGED <<promises, settleOrder, callerArray, streamError, runError, maxIterations, initialInput, runPc, i, messages, result, stepPc,
                   stepMessages, forceTextResponse, streamEvents, streamThrows,
                   finalMessages, toolResults, stepValue, log>>
    /\ UNCHANGED streamVars
    /\ UNCHANGED sessionVars
    /\ UNCHANGED clientVars

\* StepStreamThrows that catches the error and sends the request again
StepStreamThrowsRetried ==
    /\ stepPc = "streaming"
    /\ evPos = Len(streamEvents)
    /\ streamThrows
    /\ stepPc' = "requested"
    /\ log' = Append(log, [kind |-> "request", turn |-> i,
                           forced |-> forceTextResponse])
    /\ UNCHANGED <<promises, settleOrder, callerArray, streamError, runError,
                   maxIterations, initialInput, runPc, i, messages, result,
                   stepMessages, forceTextResponse, streamEvents, streamThrows,
                   evPos, toolCalls, assistantResponse, finalMessages,
                   toolResults, stepValue>>
    /\ UNCHANGED streamVars
    /\ UNCHANGED sessionVars
    /\ UNCHANGED clientVars

\* The stream throws: step throws, and so does run.
StepStreamThrows ==
    /\ stepPc = "streaming"
    /\ evPos = Len(streamEvents)
    /\ streamThrows
    /\ stepPc' = "threw"
    /\ runPc' = "raised"
    /\ runError' = streamError
    /\ UNCHANGED <<promises, settleOrder, callerArray, streamError, maxIterations, initialInput, i, messages, result,
                   stepMessages, forceTextResponse, streamEvents, streamThrows,
                   evPos, toolCalls, assistantResponse, finalMessages,
                   toolResults, stepValue, log>>
    /\ UNCHANGED streamVars
    /\ UNCHANGED sessionVars
    /\ UNCHANGED clientVars

\* StepYields that pushes the calls onto the history before it yields
StepYieldsEager ==
    /\ stepPc = "streaming"
    /\ evPos = Len(streamEvents)
    /\ ~streamThrows
    /\ Len(toolCalls) > 0
    /\ stepValue' = [type |-> "tool_request", calls |-> toolCalls]
    /\ finalMessages' =
         finalMessages \o [k \in 1..Len(toolCalls) |->
             createAssistantToolCallMessage(toolCalls[k].id, toolCalls[k].name,
                                            toolCalls[k].arguments)]
    /\ log' = log \o <<LogEntry("tool_start"), LogEntry("tool_request")>>
    /\ stepPc' = "yielded"
    /\ runPc' = "executing"
    /\ UNCHANGED <<promises, settleOrder, callerArray, streamError, runError, maxIterations, initialInput, i, messages, result,
                   stepMessages, forceTextResponse, streamEvents, streamThrows,
                   evPos, toolCalls, assistantResponse, toolResults>>
    /\ UNCHANGED streamVars
    /\ UNCHANGED sessionVars
    /\ UNCHANGED clientVars

\* The stream is over and there are tool calls: step emits tool_start and
\* yields the tool_request; run takes the calls.
StepYields ==
    /\ stepPc = "streaming"
    /\ evPos = Len(streamEvents)
    /\ ~streamThrows
    /\ Len(toolCalls) > 0
    /\ stepValue' = [type |-> "tool_request", calls |-> toolCalls]
    /\ log' = log \o <<LogEntry("tool_start"), LogEntry("tool_request")>>
    /\ stepPc' = "yielded"
    /\ runPc' = "executing"
    /\ UNCHANGED <<promises, settleOrder, callerArray, streamError, runError, maxIterations, initialInput, i, messages, result,
                   stepMessages, forceTextResponse, streamEvents, streamThrows,
                   evPos, toolCalls, assistantResponse, finalMessages, toolResults>>
    /\ UNCHANGED streamVars
    /\ UNCHANGED sessionVars
    /\ UNCHANGED clientVars

\* StepReturnsText that also returns the text of a forced turn with tool calls
StepReturnsTextWhenForced ==
    /\ stepPc = "streaming"
    /\ evPos = Len(streamEvents)
    /\ ~streamThrows
    /\ Len(toolCalls) = 0 \/ forceTextResponse
    /\ finalMessages' =
         Append(finalMessages, createAssistantTextMessage(assistantResponse))
    /\ stepValue' = [type |-> "text_response", content |-> assistantResponse,
                     messages |-> finalMessages']
    /\ log' = Append(log, ReturnEntry)
    /\ stepPc' = "returned"
    /\ result' = assistantResponse
    /\ runPc' = "returned"
    /\ UNCHANGED <<promises, settleOrder, callerArray, streamError, runError, maxIterations, initialInput, i, messages,
                   stepMessages, forceTextResponse, streamEvents, streamThrows,
                   evPos, toolCalls, assistantResponse, toolResults>>
    /\ UNCHANGED streamVars
    /\ UNCHANGED sessionVars
    /\ UNCHANGED clientVars

\* The stream is over and there is no tool call: step appends the assistant
\* text and returns; run returns the content.
StepReturnsText ==
    /\ stepPc = "streaming"
    /\ evPos = Len(streamEvents)
    /\ ~streamThrows
    /\ Len(toolCalls) = 0
    /\ finalMessages' =
         Append(finalMessages, createAssistantTextMessage(assistantResponse))
    /\ stepValue' = [type |-> "text_response", content |-> assistantResponse,
                     messages |-> finalMessages']
    /\ log' = Append(log, ReturnEntry)
    /\ stepPc' = "returned"
    /\ result' = assistantResponse
    /\ runPc' = "returned"
    /\ UNCHANGED <<promises, settleOrder, callerArray, streamError, runError, maxIterations, initialInput, i, messages,
                   stepMessages, forceTextResponse, streamEvents, streamThrows,
                   evPos, toolCalls, assistantResponse, toolResults>>
    /\ UNCHANGED streamVars
    /\ UNCHANGED sessionVars
    /\ UNCHANGED clientVars

\* `executeTools(calls, this.#tools)` is called in run: the map starts every
\* mapper, and run awaits Promise.all of the promises.
RunStartsTools ==
    /\ runPc = "executing"
    /\ promises' = executeTools(stepValue.calls, tools)
    /\ settleOrder' = SettledAtStart(promises')
    /\ log' = Append(log, LogEntry("execute_tools"))
    /\ runPc' = "awaitingTools"
    /\ UNCHANGED <<callerArray, streamError, runError, maxIterations, initialInput, i, messages, result, stepPc,
                   stepMessages, forceTextResponse, streamEvents, streamThrows,
                   evPos, toolCalls, assistantResponse, finalMessages,
                   toolResults, stepValue>>
    /\ UNCHANGED streamVars
    /\ UNCHANGED sessionVars
    /\ UNCHANGED clientVars

\* One tool.execute settles while run awaits Promise.all, and its mapper runs
\* to its end.
ToolSettles ==
    /\ runPc = "awaitingTools"
    /\ \E k \in 1..Len(promises) :
       \E outcome \in ExecuteOutcomes(stepValue.calls[k].name) :
         /\ promises[k].state = "pending"
         /\ promises' = [promises EXCEPT ![k] = SettleOne(stepValue.calls[k], outcome)]
         /\ settleOrder' = Append(settleOrder, k)
    /\ UNCHANGED <<callerArray, streamError, runError, maxIterations, initialInput, runPc, i, messages, result, stepPc,
                   stepMessages, forceTextResponse, streamEvents, streamThrows,
                   evPos, toolCalls, assistantResponse, finalMessages,
                   toolResults, stepValue, log>>
    /\ UNCHANGED streamVars
    /\ UNCHANGED sessionVars
    /\ UNCHANGED clientVars

\* Promise.all resolves and run has the results.
RunToolsResolve ==
    /\ runPc = "awaitingTools"
    /\ AllFulfilled(promises)
    /\ toolResults' = PromiseAll(promises, settleOrder)
    /\ runPc' = "resuming"
    /\ UNCHANGED <<promises, settleOrder, callerArray, streamError, runError, maxIterations, initialInput, i, messages,
                   result, stepPc, stepMessages, forceTextResponse, streamEvents,
                   streamThrows, evPos, toolCalls, assistantResponse,
                   finalMessages, stepValue, log>>
    /\ UNCHANGED streamVars
    /\ UNCHANGED sessionVars
    /\ UNCHANGED clientVars

\* Promise.all rejects, the await in run throws and run rejects; the step
\* generator stays suspended and the other tools run on.
RunToolsReject ==
    /\ runPc = "awaitingTools"
    /\ Rejected(promises)
    /\ runPc' = "raised"
    /\ runError' = TypeError
    /\ UNCHANGED <<promises, settleOrder, callerArray, streamError, maxIterations, initialInput, i, messages,
                   result, stepPc, stepMessages, forceTextResponse, streamEvents,
                   streamThrows, evPos, toolCalls, assistantResponse,
                   finalMessages, toolResults, stepValue, log>>
    /\ UNCHANGED streamVars
    /\ UNCHANGED sessionVars
    /\ UNCHANGED clientVars

\* StepResumes after which run keeps only the messages of the tool exchange
StepResumesKeepsExchangeOnly ==
    /\ runPc = "resuming"
    /\ stepPc = "yielded"
    /\ finalMessages' = AppendToolExchange(finalMessages, toolCalls, toolResults)
    /\ stepValue' = [type |-> "text_response", content |-> assistantResponse,
                     messages |-> finalMessages']
    /\ log' = log \o <<LogEntry("tool_finish"), ReturnEntry>>
    /\ stepPc' = "returned"
    /\ messages' = AppendToolExchange(<<>>, toolCalls, toolResults)
    /\ IF NonEmpty(assistantResponse)
       THEN /\ result' = assistantResponse
            /\ runPc' = "returned"
            /\ i' = i
       ELSE /\ result' = result
            /\ runPc' = "loop"
            /\ i' = i + 1
    /\ promises' = <<>> /\ settleOrder' = <<>>
    /\ UNCHANGED <<callerArray, streamError, runError, maxIterations, initialInput, stepMessages, forceTextResponse,
                   streamEvents, streamThrows, evPos, toolCalls,
                   assistantResponse, toolResults>>
    /\ UNCHANGED streamVars
    /\ UNCHANGED sessionVars
    /\ UNCHANGED clientVars

\* run resumes step with the results: step emits tool_finish, appends the
\* exchange and returns; run takes the messages and returns the content if
\* there is any, else goes round the loop. The promises of the batch go out of
\* scope with the loop body.
StepResumes ==
    /\ runPc = "resuming"
    /\ stepPc = "yielded"
    /\ finalMessages' = AppendToolExchange(finalMessages, toolCalls, toolResults)
    /\ stepValue' = [type |-> "text_response", content |-> assistantResponse,
                     messages |-> finalMessages']
    /\ log' = log \o <<LogEntry("tool_finish"), ReturnEntry>>
    /\ stepPc' = "returned"
    /\ messages' = finalMessages'
    /\ IF NonEmpty(assistantResponse)
       THEN /\ result' = assistantResponse
            /\ runPc' = "returned"
            /\ i' = i
       ELSE /\ result' = result
            /\ runPc' = "loop"
            /\ i' = i + 1
    /\ promises' = <<>> /\ settleOrder' = <<>>
    /\ UNCHANGED <<callerArray, streamError, runError, maxIterations, initialInput, stepMessages, forceTextResponse,
                   streamEvents, streamThrows, evPos, toolCalls,
                   assistantResponse, toolResults>>
    /\ UNCHANGED streamVars
    /\ UNCHANGED sessionVars
    /\ UNCHANGED clientVars

\* RunExhausted that throws, as the run of v2.11.0 does
RunExhaustedThrows ==
    /\ runPc = "loop"
    /\ ~LoopContinues(i, maxIterations)
    /\ runPc' = "raised"
    /\ UNCHANGED <<promises, settleOrder, callerArray, streamError, runError, maxIterations, initialInput, i, messages, result, stepPc,
                   stepMessages, forceTextResponse, streamEvents, streamThrows,
                   evPos, toolCalls, assistantResponse, finalMessages,
                   toolResults, stepValue, log>>
    /\ UNCHANGED streamVars
    /\ UNCHANGED sessionVars
    /\ UNCHANGED clientVars

\* The loop of run is over: run returns the fallback text.
RunExhausted ==
    /\ runPc = "loop"
    /\ ~LoopContinues(i, maxIterations)
    /\ result' = FallbackText
    /\ runPc' = "returned"
    /\ UNCHANGED <<promises, settleOrder, callerArray, streamError, runError, maxIterations, initialInput, i, messages, stepPc,
                   stepMessages, forceTextResponse, streamEvents, streamThrows,
                   evPos, toolCalls, assistantResponse, finalMessages,
                   toolResults, stepValue, log>>
    /\ UNCHANGED streamVars
    /\ UNCHANGED sessionVars
    /\ UNCHANGED clientVars

AgentNext ==
    \/ RunIterate
    \/ ModelResponds
    \/ RequestFails
    \/ StepConsumeEvent
    \/ StepStreamThrows
    \/ StepYields
    \/ StepReturnsText
    \/ RunStartsTools
    \/ ToolSettles
    \/ RunToolsResolve
    \/ RunToolsReject
    \/ StepResumes
    \/ RunExhausted

SpecAgent == AgentInit /\ [][AgentNext]_vars

\* The service answers every request, the tools settle, and the event loop
\* runs every continuation that is ready.
FairSpecAgent == SpecAgent /\ WF_vars(AgentNext)

(***************************************************************************)
(* The parameter registry                                                  *)
(***************************************************************************)
\* The parameter definitions: the wire name and the wire type of every key.
LLMParameters ==
       ("TEMPERATURE" :> [fqdn |-> "llm.parameters.temperature", type |-> "double"])
    @@ ("TOP_P" :> [fqdn |-> "llm.parameters.top-p", type |-> "double"])
    @@ ("TOP_K" :> [fqdn |-> "llm.parameters.top-k", type |-> "int"])
    @@ ("LENGTH" :> [fqdn |-> "llm.parameters.length", type |-> "int"])
    @@ ("STOP_TOKEN" :> [fqdn |-> "llm.parameters.stop-token", type |-> "text"])
    @@ ("SEED" :> [fqdn |-> "llm.parameters.seed", type |-> "int"])
    @@ ("RESPONSE_FORMAT" :> [fqdn |-> "llm.parameters.response-format", type |-> "json"])
    @@ ("TOOLS" :> [fqdn |-> "llm.parameters.tools", type |-> "json"])
    @@ ("TOOL_CHOICE_AUTO" :> [fqdn |-> "llm.parameters.tool-choice-auto", type |-> "bool"])
    @@ ("TOOL_CHOICE_REQUIRED" :> [fqdn |-> "llm.parameters.tool-choice-required", type |-> "bool"])
    @@ ("TOOL_CHOICE_NONE" :> [fqdn |-> "llm.parameters.tool-choice-none", type |-> "bool"])
    @@ ("TOOL_CHOICE_NAMED" :> [fqdn |-> "llm.parameters.tool-choice-named", type |-> "json"])
    @@ ("PARALLEL_TOOL_CALLS" :> [fqdn |-> "llm.parameters.parallel-tool-calls", type |-> "bool"])
    @@ ("REASONING_EFFORT" :> [fqdn |-> "llm.parameters.reasoning-effort", type |-> "text"])
    @@ ("PREDICTED_OUTPUT" :> [fqdn |-> "llm.parameters.predicted-output", type |-> "json"])
    @@ ("CACHE_POINTS" :> [fqdn |-> "llm.parameters.cache-points", type |-> "json"])
    @@ ("THINKING_BUDGET" :> [fqdn |-> "llm.parameters.thinking-budget", type |-> "int"])
    @@ ("NUMBER_OF_CHOICES" :> [fqdn |-> "llm.parameters.number-of-choices", type |-> "int"])
    @@ ("VERBOSITY" :> [fqdn |-> "llm.parameters.verbosity", type |-> "text"])

\* `[...].map(k => LLMParameters[k].fqdn)`
Fqdns(keys) == { LLMParameters[k].fqdn : k \in keys }

\* paramGroups
COMMON_TOOLS ==
    Fqdns({"TOOLS", "TOOL_CHOICE_NAMED",
           "TOOL_CHOICE_AUTO", "TOOL_CHOICE_REQUIRED", "TOOL_CHOICE_NONE"})
OPENAI_GPT3_4 ==
    Fqdns({"TEMPERATURE", "TOP_P", "SEED",
           "LENGTH", "NUMBER_OF_CHOICES", "PARALLEL_TOOL_CALLS"})
OPENAI_O_SERIES ==
    Fqdns({"LENGTH", "SEED",
           "RESPONSE_FORMAT", "REASONING_EFFORT", "NUMBER_OF_CHOICES"})
OPENAI_GPT4_1 ==
    Fqdns({"TOP_P", "LENGTH", "SEED", "TEMPERATURE",
           "RESPONSE_FORMAT", "NUMBER_OF_CHOICES", "PREDICTED_OUTPUT", "PARALLEL_TOOL_CALLS"})
OPENAI_GPT5 ==
    Fqdns({"LENGTH", "RESPONSE_FORMAT",
           "PARALLEL_TOOL_CALLS", "REASONING_EFFORT", "VERBOSITY"})
ANTHROPIC_CLAUDE3 ==
    Fqdns({"TEMPERATURE", "TOP_K", "TOP_P",
           "STOP_TOKEN", "LENGTH", "TOOLS"})
ANTHROPIC_CLAUDE_PLUS ==
    Fqdns({"TEMPERATURE", "TOP_P", "STOP_TOKEN",
           "LENGTH", "CACHE_POINTS", "PARALLEL_TOOL_CALLS"})
GOOGLE_GEMINI_1_5_PRO ==
    Fqdns({"TEMPERATURE", "TOP_P",
           "TOP_K", "RESPONSE_FORMAT", "LENGTH"})
GOOGLE_GEMINI_1_5_FLASH == Fqdns({"TEMPERATURE", "TOP_P", "TOP_K", "LENGTH"})
GOOGLE_GEMINI_2_5_PRO ==
    Fqdns({"TEMPERATURE", "TOP_P", "TOP_K",
           "RESPONSE_FORMAT", "LENGTH", "THINKING_BUDGET", "TOOLS"})
GOOGLE_GEMINI_2_5_FLASH ==
    Fqdns({"RESPONSE_FORMAT", "TEMPERATURE",
           "LENGTH", "TOP_P", "THINKING_BUDGET"})

\* modelProfiles: the supported wire names of every registered profile.
modelProfiles ==
       ("openai-chat-gpt" :>
         [provider |-> "OpenAI",
          params |-> OPENAI_GPT3_4 \cup COMMON_TOOLS])
    @@ ("openai-gpt-4" :>
         [provider |-> "OpenAI",
          params |-> OPENAI_GPT3_4 \cup COMMON_TOOLS])
    @@ ("openai-gpt-4-turbo" :>
         [provider |-> "OpenAI",
          params |-> OPENAI_GPT3_4 \cup COMMON_TOOLS \cup Fqdns({"RESPONSE_FORMAT"})])
    @@ ("openai-gpt-4o" :>
         [provider |-> "OpenAI",
          params |-> OPENAI_GPT3_4 \cup COMMON_TOOLS \cup Fqdns({"RESPONSE_FORMAT"}) \cup Fqdns({"PREDICTED_OUTPUT"})])
    @@ ("openai-gpt-4o-mini" :>
         [provider |-> "OpenAI",
          params |-> OPENAI_GPT3_4 \cup COMMON_TOOLS \cup Fqdns({"RESPONSE_FORMAT"}) \cup Fqdns({"PREDICTED_OUTPUT"})])
    @@ ("openai-o1" :>
         [provider |-> "OpenAI",
          params |-> OPENAI_O_SERIES \cup COMMON_TOOLS])
    @@ ("openai-o1-mini" :>
         [provider |-> "OpenAI",
          params |-> Fqdns({"LENGTH", "SEED", "NUMBER_OF_CHOICES"})])
    @@ ("openai-o3" :>
         [provider |-> "OpenAI",
          params |-> OPENAI_O_SERIES \cup COMMON_TOOLS])
    @@ ("openai-o3-mini" :>
         [provider |-> "OpenAI",
          params |-> OPENAI_O_SERIES \cup COMMON_TOOLS])
    @@ ("openai-o4-mini" :>
         [provider |-> "OpenAI",
          params |-> OPENAI_O_SERIES \cup COMMON_TOOLS])
    @@ ("openai-gpt4.1" :>
         [provider |-> "OpenAI",
          params |-> OPENAI_GPT4_1 \cup COMMON_TOOLS])
    @@ ("openai-gpt4.1-mini" :>
         [provider |-> "OpenAI",
          params |-> OPENAI_GPT4_1 \cup COMMON_TOOLS])
    @@ ("openai-gpt4.1-nano" :>
         [provider |-> "OpenAI",
          params |-> OPENAI_GPT4_1 \cup COMMON_TOOLS])
    @@ ("openai-gpt-5" :>
         [provider |-> "OpenAI",
          params |-> OPENAI_GPT5 \cup COMMON_TOOLS])
    @@ ("openai-gpt-5-mini" :>
         [provider |-> "OpenAI",
          params |-> OPENAI_GPT5 \cup COMMON_TOOLS])
    @@ ("openai-gpt-5-nano" :>
         [provider |-> "OpenAI",
          params |-> OPENAI_GPT5 \cup COMMON_TOOLS])
    @@ ("Grazie_model_1" :>
         [provider |-> "OpenAI",
          params |-> OPENAI_GPT5 \cup COMMON_TOOLS])
    @@ ("Grazie_model_2" :>
         [provider |-> "OpenAI",
          params |-> OPENAI_GPT5 \cup COMMON_TOOLS])
    @@ ("openai-instruct-gpt" :>
         [provider |-> "OpenAI",
          params |-> Fqdns({"TEMPERATURE"})])
    @@ ("openai-embedding-ada" :> [provider |-> "OpenAI", params |-> {}])
    @@ ("openai-embedding-small" :> [provider |-> "OpenAI", params |-> {}])
    @@ ("openai-embedding-large" :> [provider |-> "OpenAI", params |-> {}])
    @@ ("anthropic-claude-3-haiku" :>
         [provider |-> "Anthropic",
          params |-> ANTHROPIC_CLAUDE3])
    @@ ("anthropic-claude-3-opus" :>
         [provider |-> "Anthropic",
          params |-> ANTHROPIC_CLAUDE3])
    @@ ("anthropic-claude-3.5-haiku" :>
         [provider |-> "Anthropic",
          params |-> ANTHROPIC_CLAUDE_PLUS \cup COMMON_TOOLS])
    @@ ("anthropic-claude-3.5-sonnet" :>
         [provider |-> "Anthropic",
          params |-> Fqdns({"TEMPERATURE", "TOP_P", "STOP_TOKEN", "LENGTH", "PARALLEL_TOOL_CALLS"}) \cup COMMON_TOOLS])
    @@ ("anthropic-claude-3.7-sonnet" :>
         [provider |-> "Anthropic",
          params |-> ANTHROPIC_CLAUDE_PLUS \cup COMMON_TOOLS])
    @@ ("anthropic-claude-4-sonnet" :>
         [provider |-> "Anthropic",
          params |-> ANTHROPIC_CLAUDE_PLUS \cup COMMON_TOOLS])
    @@ ("anthropic-claude-4-opus" :>
         [provider |-> "Anthropic",
          params |-> ANTHROPIC_CLAUDE_PLUS \cup COMMON_TOOLS])
    @@ ("anthropic-claude-4.1-opus" :>
         [provider |-> "Anthropic",
          params |-> ANTHROPIC_CLAUDE_PLUS \cup COMMON_TOOLS])
    @@ ("google-chat-gemini-pro-1.5" :>
         [provider |-> "Google",
          params |-> GOOGLE_GEMINI_1_5_PRO \cup COMMON_TOOLS])
    @@ ("google-chat-gemini-flash-1.5" :>
         [provider |-> "Google",
          params |-> GOOGLE_GEMINI_1_5_FLASH \cup COMMON_TOOLS])
    @@ ("google-chat-gemini-flash-2.0" :>
         [provider |-> "Google",
          params |-> GOOGLE_GEMINI_1_5_PRO \cup COMMON_TOOLS])
    @@ ("google-chat-gemini-flash-lite-2.0" :>
         [provider |-> "Google",
          params |-> GOOGLE_GEMINI_1_5_PRO \cup COMMON_TOOLS])
    @@ ("google-chat-gemini-pro-2.5" :>
         [provider |-> "Google",
          params |-> GOOGLE_GEMINI_2_5_PRO])
    @@ ("google-chat-gemini-flash-2.5" :>
         [provider |-> "Google",
          params |-> GOOGLE_GEMINI_2_5_FLASH \cup COMMON_TOOLS])
    @@ ("google-chat-gemini-flash-lite-2.5" :>
         [provider |-> "Google",
          params |-> GOOGLE_GEMINI_2_5_FLASH \cup COMMON_TOOLS])

\* The property names every object literal inherits from Object.prototype:
\* `modelProfiles[name]` finds a value for them, and the value has no `params`.
ObjectPrototypeNames ==
    { "constructor", "toString", "toLocaleString", "valueOf", "hasOwnProperty",
      "isPrototypeOf", "propertyIsEnumerable", "__proto__" }

\* `modelProfiles[profile]`: an own entry, an inherited property, or undefined.
LookupProfile(name) ==
    IF name \in DOMAIN modelProfiles
    THEN [kind |-> "own", params |-> modelProfiles[name].params]
    ELSE IF name \in ObjectPrototypeNames
    THEN [kind |-> "inherited", params |-> {}]
    ELSE [kind |-> "undefined", params |-> {}]

(***************************************************************************)
(* ParameterBuilder                                                        *)
(***************************************************************************)
\* A parameter map is the sequence of its [key, value] entries in insertion
\* order (the order of Object.entries). A value is a sequence of strings.
HasKey(params, key) == \E k \in 1..Len(params) : params[k].key = key

\* `this.#params.KEY = value`: an existing key keeps its place.
SetParam(params, key, value) ==
    IF HasKey(params, key)
    THEN [k \in 1..Len(params) |->
            IF params[k].key = key THEN [key |-> key, value |-> value]
            ELSE params[k]]
    ELSE Append(params, [key |-> key, value |-> value])


\* The setters of ParameterBuilder: the key each one assigns, and what it
\* assigns: its argument ("value"), its argument or true when called without
\* one ("flag"), {type: 'json'} ("json"), or its argument wrapped as
\* {type: 'function', function: {name: argument}} ("named").
BuilderMethods ==
       ("temperature" :> [key |-> "TEMPERATURE", kind |-> "value"])
    @@ ("topP" :> [key |-> "TOP_P", kind |-> "value"])
    @@ ("topK" :> [key |-> "TOP_K", kind |-> "value"])
    @@ ("length" :> [key |-> "LENGTH", kind |-> "value"])
    @@ ("stopToken" :> [key |-> "STOP_TOKEN", kind |-> "value"])
    @@ ("seed" :> [key |-> "SEED", kind |-> "value"])
    @@ ("asJson" :> [key |-> "RESPONSE_FORMAT", kind |-> "json"])
    @@ ("toolChoiceAuto" :> [key |-> "TOOL_CHOICE_AUTO", kind |-> "flag"])
    @@ ("toolChoiceRequired" :> [key |-> "TOOL_CHOICE_REQUIRED", kind |-> "flag"])
    @@ ("toolChoiceNone" :> [key |-> "TOOL_CHOICE_NONE", kind |-> "flag"])
    @@ ("toolChoiceNamed" :> [key |-> "TOOL_CHOICE_NAMED", kind |-> "named"])
    @@ ("parallelToolCalls" :> [key |-> "PARALLEL_TOOL_CALLS", kind |-> "flag"])
    @@ ("reasoningEffort" :> [key |-> "REASONING_EFFORT", kind |-> "value"])
    @@ ("predictedOutput" :> [key |-> "PREDICTED_OUTPUT", kind |-> "value"])
    @@ ("cachePoints" :> [key |-> "CACHE_POINTS", kind |-> "value"])
    @@ ("thinkingBudget" :> [key |-> "THINKING_BUDGET", kind |-> "value"])
    @@ ("numberOfChoices" :> [key |-> "NUMBER_OF_CHOICES", kind |-> "value"])
    @@ ("verbosity" :> [key |-> "VERBOSITY", kind |-> "value"])


\* One call of a setter. An argument of <<>> is a call without argument.
CallMethod(params, method, arg) ==
    LET m == BuilderMethods[method] IN
    CASE m.kind = "flag" ->
           SetParam(params, m.key, IF arg = <<>> THEN <<"true">> ELSE arg)
      [] m.kind = "json" -> SetParam(params, m.key, <<"json">>)
      [] m.kind = "named" -> SetParam(params, m.key, <<"function">> \o arg)
      [] OTHER -> SetParam(params, m.key, arg)

\* `builderFn(builder)._build()`: the calls of builderFn, in order.
RECURSIVE Build(_, _)
Build(params, calls) ==
    IF calls = <<>> THEN params
    ELSE Build(CallMethod(params, Head(calls).method, Head(calls).arg), Tail(calls))

\* The calls a builderFn makes: every setter with an argument of its kind, the
\* tool choice "none" both switched on and switched off.
BuilderCalls ==
    { [method |-> m,
       arg |-> CASE BuilderMethods[m].kind \in {"flag", "json"} -> <<>>
                 [] BuilderMethods[m].kind = "named" -> <<"f">>
                 [] OTHER -> <<"1">>] : m \in DOMAIN BuilderMethods }
      \cup { [method |-> "toolChoiceNone", arg |-> <<"false">>] }

\* The parameter maps withParameters leaves in a session, for a builderFn of
\* up to `most` calls.
MapsOf(most) ==
    { Build(<<>>, calls) :
        calls \in UNION { [1..n -> BuilderCalls] : n \in 0..most } }

ParameterMaps == MapsOf(MaxParams)

(***************************************************************************)
(* buildParametersArray                                                    *)
(***************************************************************************)
\* The two entries pushed for one parameter: its name, then its value.
NameEntry(def) == [type |-> def.type, fqdn |-> def.fqdn, value |-> <<>>]
ValueEntry(type, value) == [type |-> type, fqdn |-> Absent, value |-> value]

\* The switch on paramDef.type: Number, Boolean, JSON.stringify or String of
\* the value.
ConvertValue(type, value) ==
    CASE type \in {"double", "int"} -> <<"Number">> \o value
      [] type = "bool" -> <<"Boolean">> \o value
      [] type = "json" -> <<"JSON">> \o value
      [] OTHER -> <<"String">> \o value

ParameterWarning(key, name) == [parameter |-> key, profile |-> name]

\* The result of a part of buildParametersArray: whether it threw, what it
\* pushed onto data, the parameter_warning events it emitted.
Built(threw, data, warns) == [threw |-> threw, data |-> data, warnings |-> warns]

\* `if (tools.length > 0) { ... }`
ToolsEntries(toolList, modelProfile) ==
    IF toolList = <<>> THEN Built(FALSE, <<>>, <<>>)
    ELSE IF modelProfile.kind = "inherited" THEN Built(TRUE, <<>>, <<>>)
    ELSE IF modelProfile.kind = "undefined"
              \/ LLMParameters["TOOLS"].fqdn \in modelProfile.params
    THEN Built(FALSE,
               << NameEntry(LLMParameters["TOOLS"]),
                  ValueEntry("json", <<"JSON">> \o toolList) >>,
               <<>>)
    ELSE Built(FALSE, <<>>, <<>>)

\* ParamEntries without the `continue` after the warning
ParamEntriesNoContinue(entry, name, modelProfile) ==
    LET paramDef == LLMParameters[entry.key]
        pushed == << NameEntry(paramDef),
                     ValueEntry(paramDef.type,
                                ConvertValue(paramDef.type, entry.value)) >>
    IN  IF entry.key \notin DOMAIN LLMParameters THEN Built(FALSE, <<>>, <<>>)
        ELSE IF modelProfile.kind = "inherited" THEN Built(TRUE, <<>>, <<>>)
        ELSE IF modelProfile.kind = "own" /\ paramDef.fqdn \notin modelProfile.params
        THEN Built(FALSE, pushed, <<ParameterWarning(entry.key, name)>>)
        ELSE Built(FALSE, pushed, <<>>)

\* One pass of `for (const [key, value] of Object.entries(params))`.
ParamEntries(entry, name, modelProfile) ==
    IF entry.key \notin DOMAIN LLMParameters THEN Built(FALSE, <<>>, <<>>)
    ELSE LET paramDef == LLMParameters[entry.key] IN
         IF modelProfile.kind = "inherited" THEN Built(TRUE, <<>>, <<>>)
         ELSE IF modelProfile.kind = "own" /\ paramDef.fqdn \notin modelProfile.params
         THEN Built(FALSE, <<>>, <<ParameterWarning(entry.key, name)>>)
         ELSE Built(FALSE,
                    << NameEntry(paramDef),
                       ValueEntry(paramDef.type,
                                  ConvertValue(paramDef.type, entry.value)) >>,
                    <<>>)

\* The loop over the entries, from what was built before it; it ends where a
\* pass throws.
RECURSIVE ParamLoop(_, _, _, _)
ParamLoop(sofar, params, name, modelProfile) ==
    IF sofar.threw \/ params = <<>> THEN sofar
    ELSE LET r == ParamEntries(Head(params), name, modelProfile) IN
         ParamLoop(Built(r.threw, sofar.data \o r.data, sofar.warnings \o r.warnings),
                   Tail(params), name, modelProfile)

\* buildParametersArray(params, tools, profile, eventEmitter). A `data` of <<>>
\* is the return value null.
buildParametersArray(params, toolList, name) ==
    LET modelProfile == LookupProfile(name) IN
    ParamLoop(ToolsEntries(toolList, modelProfile), params, name, modelProfile)

\* The profile identifiers a session is created with: the registered ones, one
\* that is not registered, and one that names a property of Object.prototype.
ProfileIds == DOMAIN modelProfiles \cup {"custom-model", "constructor"}

\* The tool lists of a request: none, or the tool f.
ToolLists == { <<>>, <<"f">> }

ParamsInit ==
    /\ StreamIdle
    /\ AgentIdle
    /\ ClientIdle
    /\ profile \in ProfileIds
    /\ tools \in ToolLists
    /\ parameters \in ParameterMaps
    /\ systemMessage = NoSystemMessage
    /\ sessionForStream = NoSession
    /\ requestBody = NoRequest
    /\ configured = Session(profile, tools, systemMessage, parameters)
    /\ history = <<>>
    /\ parametersData = NotBuilt
    /\ warnings = <<>>

\* buildParametersArray is called for one request.
BuildParameters ==
    /\ ~parametersData.built
    /\ LET r == buildParametersArray(parameters, tools, profile) IN
         /\ parametersData' = [built |-> TRUE, threw |-> r.threw, data |-> r.data]
         /\ warnings' = r.warnings
    /\ UNCHANGED <<profile, tools, systemMessage, parameters, sessionForStream,
                   requestBody, configured, history>>
    /\ UNCHANGED streamVars
    /\ UNCHANGED agentVars
    /\ UNCHANGED clientVars

ParamsNext == BuildParameters

SpecParams == ParamsInit /\ [][ParamsNext]_vars

(***************************************************************************)
(* ChatSession: the forced-text session and #buildRequestBody              *)
(***************************************************************************)
\* The characters of the keys a builder can set.
KeyChars ==
       ("TEMPERATURE" :> <<"T", "E", "M", "P", "E", "R", "A", "T", "U", "R", "E">>)
    @@ ("TOP_P" :> <<"T", "O", "P", "_", "P">>)
    @@ ("TOP_K" :> <<"T", "O", "P", "_", "K">>)
    @@ ("LENGTH" :> <<"L", "E", "N", "G", "T", "H">>)
    @@ ("STOP_TOKEN" :> <<"S", "T", "O", "P", "_", "T", "O", "K", "E", "N">>)
    @@ ("SEED" :> <<"S", "E", "E", "D">>)
    @@ ("RESPONSE_FORMAT" :> <<"R", "E", "S", "P", "O", "N", "S", "E", "_", "F", "O", "R", "M", "A", "T">>)
    @@ ("TOOL_CHOICE_AUTO" :> <<"T", "O", "O", "L", "_", "C", "H", "O", "I", "C", "E", "_", "A", "U", "T", "O">>)
    @@ ("TOOL_CHOICE_REQUIRED" :> <<"T", "O", "O", "L", "_", "C", "H", "O", "I", "C", "E", "_", "R", "E", "Q", "U", "I", "R", "E", "D">>)
    @@ ("TOOL_CHOICE_NONE" :> <<"T", "O", "O", "L", "_", "C", "H", "O", "I", "C", "E", "_", "N", "O", "N", "E">>)
    @@ ("TOOL_CHOICE_NAMED" :> <<"T", "O", "O", "L", "_", "C", "H", "O", "I", "C", "E", "_", "N", "A", "M", "E", "D">>)
    @@ ("PARALLEL_TOOL_CALLS" :> <<"P", "A", "R", "A", "L", "L", "E", "L", "_", "T", "O", "O", "L", "_", "C", "A", "L", "L", "S">>)
    @@ ("REASONING_EFFORT" :> <<"R", "E", "A", "S", "O", "N", "I", "N", "G", "_", "E", "F", "F", "O", "R", "T">>)
    @@ ("PREDICTED_OUTPUT" :> <<"P", "R", "E", "D", "I", "C", "T", "E", "D", "_", "O", "U", "T", "P", "U", "T">>)
    @@ ("CACHE_POINTS" :> <<"C", "A", "C", "H", "E", "_", "P", "O", "I", "N", "T", "S">>)
    @@ ("THINKING_BUDGET" :> <<"T", "H", "I", "N", "K", "I", "N", "G", "_", "B", "U", "D", "G", "E", "T">>)
    @@ ("NUMBER_OF_CHOICES" :> <<"N", "U", "M", "B", "E", "R", "_", "O", "F", "_", "C", "H", "O", "I", "C", "E", "S">>)
    @@ ("VERBOSITY" :> <<"V", "E", "R", "B", "O", "S", "I", "T", "Y">>)

\* The characters of the names of the setters of ParameterBuilder.
MethodChars ==
       ("temperature" :> <<"t", "e", "m", "p", "e", "r", "a", "t", "u", "r", "e">>)
    @@ ("topP" :> <<"t", "o", "p", "P">>)
    @@ ("topK" :> <<"t", "o", "p", "K">>)
    @@ ("length" :> <<"l", "e", "n", "g", "t", "h">>)
    @@ ("stopToken" :> <<"s", "t", "o", "p", "T", "o", "k", "e", "n">>)
    @@ ("seed" :> <<"s", "e", "e", "d">>)
    @@ ("asJson" :> <<"a", "s", "J", "s", "o", "n">>)
    @@ ("toolChoiceAuto" :> <<"t", "o", "o", "l", "C", "h", "o", "i", "c", "e", "A", "u", "t", "o">>)
    @@ ("toolChoiceRequired" :> <<"t", "o", "o", "l", "C", "h", "o", "i", "c", "e", "R", "e", "q", "u", "i", "r", "e", "d">>)
    @@ ("toolChoiceNone" :> <<"t", "o", "o", "l", "C", "h", "o", "i", "c", "e", "N", "o", "n", "e">>)
    @@ ("toolChoiceNamed" :> <<"t", "o", "o", "l", "C", "h", "o", "i", "c", "e", "N", "a", "m", "e", "d">>)
    @@ ("parallelToolCalls" :> <<"p", "a", "r", "a", "l", "l", "e", "l", "T", "o", "o", "l", "C", "a", "l", "l", "s">>)
    @@ ("reasoningEffort" :> <<"r", "e", "a", "s", "o", "n", "i", "n", "g", "E", "f", "f", "o", "r", "t">>)
    @@ ("predictedOutput" :> <<"p", "r", "e", "d", "i", "c", "t", "e", "d", "O", "u", "t", "p", "u", "t">>)
    @@ ("cachePoints" :> <<"c", "a", "c", "h", "e", "P", "o", "i", "n", "t", "s">>)
    @@ ("thinkingBudget" :> <<"t", "h", "i", "n", "k", "i", "n", "g", "B", "u", "d", "g", "e", "t">>)
    @@ ("numberOfChoices" :> <<"n", "u", "m", "b", "e", "r", "O", "f", "C", "h", "o", "i", "c", "e", "s">>)
    @@ ("verbosity" :> <<"v", "e", "r", "b", "o", "s", "i", "t", "y">>)

\* toLowerCase and toUpperCase on the letters.
LowerCase ==
       ("A" :> "a")
    @@ ("B" :> "b")
    @@ ("C" :> "c")
    @@ ("D" :> "d")
    @@ ("E" :> "e")
    @@ ("F" :> "f")
    @@ ("G" :> "g")
    @@ ("H" :> "h")
    @@ ("I" :> "i")
    @@ ("J" :> "j")
    @@ ("K" :> "k")
    @@ ("L" :> "l")
    @@ ("M" :> "m")
    @@ ("N" :> "n")
    @@ ("O" :> "o")
    @@ ("P" :> "p")
    @@ ("Q" :> "q")
    @@ ("R" :> "r")
    @@ ("S" :> "s")
    @@ ("T" :> "t")
    @@ ("U" :> "u")
    @@ ("V" :> "v")
    @@ ("W" :> "w")
    @@ ("X" :> "x")
    @@ ("Y" :> "y")
    @@ ("Z" :> "z")

UpperCase ==
       ("a" :> "A")
    @@ ("b" :> "B")
    @@ ("c" :> "C")
    @@ ("d" :> "D")
    @@ ("e" :> "E")
    @@ ("f" :> "F")
    @@ ("g" :> "G")
    @@ ("h" :> "H")
    @@ ("i" :> "I")
    @@ ("j" :> "J")
    @@ ("k" :> "K")
    @@ ("l" :> "L")
    @@ ("m" :> "M")
    @@ ("n" :> "N")
    @@ ("o" :> "O")
    @@ ("p" :> "P")
    @@ ("q" :> "Q")
    @@ ("r" :> "R")
    @@ ("s" :> "S")
    @@ ("t" :> "T")
    @@ ("u" :> "U")
    @@ ("v" :> "V")
    @@ ("w" :> "W")
    @@ ("x" :> "X")
    @@ ("y" :> "Y")
    @@ ("z" :> "Z")

\* `key.toLowerCase()`
ToLowerCase(chars) ==
    [k \in 1..Len(chars) |->
        IF chars[k] \in DOMAIN LowerCase THEN LowerCase[chars[k]] ELSE chars[k]]

\* `p1.toUpperCase()`
ToUpperCase(c) == IF c \in DOMAIN UpperCase THEN UpperCase[c] ELSE c

\* `\w` of a regular expression, on the characters keys are made of.
IsWordChar(c) == c \in DOMAIN LowerCase \cup DOMAIN UpperCase \cup {"_"}

\* `.replace(/_(\w)/g, (_, p1) => p1.toUpperCase())`
RECURSIVE ReplaceUnderscores(_)
ReplaceUnderscores(chars) ==
    IF chars = <<>> THEN <<>>
    ELSE IF Head(chars) = "_" /\ Len(chars) > 1 /\ IsWordChar(chars[2])
    THEN <<ToUpperCase(chars[2])>> \o ReplaceUnderscores(SubSeq(chars, 3, Len(chars)))
    ELSE <<Head(chars)>> \o ReplaceUnderscores(Tail(chars))

\* `const methodName = key.toLowerCase().replace(...)`
MethodNameOf(key) == ReplaceUnderscores(ToLowerCase(KeyChars[key]))

\* `typeof builder[methodName] === 'function'`: the setters of that name.
MethodsNamed(chars) == { m \in DOMAIN MethodChars : MethodChars[m] = chars }

\* `builder[methodName]` for the methodName of every key.
SettersOf == [key \in DOMAIN KeyChars |-> MethodsNamed(MethodNameOf(key))]

\* The loop over Object.entries(originalParams) in the builderFn of the forced
\* branch.
RECURSIVE ReplayParams(_, _)
ReplayParams(params, entries) ==
    IF entries = <<>> THEN params
    ELSE LET named == SettersOf[Head(entries).key] IN
         ReplayParams(IF named # {}
                      THEN CallMethod(params, CHOOSE m \in named : TRUE,
                                      Head(entries).value)
                      ELSE params,
                      Tail(entries))

\* The parameters of the temporary session: the replay of the original ones,
\* then `builder.toolChoiceNone(true)`.
ForcedParameters(originalParams) ==
    CallMethod(ReplayParams(<<>>, originalParams), "toolChoiceNone", <<"true">>)

\* `new ChatSession(...).withTools(...).withSystemMessage(...).withParameters(...)`
ForcedSession(this) ==
    Session(this.profile, this.tools, this.systemMessage,
            ForcedParameters(this.parameters))

\* StepSessions with the with* chain of the forced branch called on `this`
StepSessionsInPlace(this, forced) ==
    LET s == IF forced THEN ForcedSession(this) ELSE this
    IN  [this |-> s, forStream |-> s]

\* The head of step: the session step was called on, as step leaves it, and
\* the session it streams from.
StepSessions(this, forced) ==
    [this |-> this,
     forStream |-> IF forced THEN ForcedSession(this) ELSE this]

\* `this.#systemMessage &&`: neither null nor the empty string.
IsSet(sysMsg) == ~sysMsg.isNull /\ sysMsg.content # <<>>

\* HasSystemMessage that looks at the first message only
StartsWithSystemMessage(msgs) ==
    Len(msgs) > 0 /\ msgs[1].type = "system_message"

\* `messages.some(m => m.type === 'system_message')`
HasSystemMessage(msgs) ==
    \E k \in 1..Len(msgs) : msgs[k].type = "system_message"

\* `allMessages` of #buildRequestBody: a copy of the messages, the configured
\* system message put in front of it.
AllMessages(sysMsg, msgs) ==
    IF IsSet(sysMsg) /\ ~HasSystemMessage(msgs)
    THEN <<createSystemMessage(sysMsg.content)>> \o msgs
    ELSE msgs

\* #buildRequestBody of a session, and the events it emits. `threw` when
\* buildParametersArray throws; a `data` of <<>> is a body without parameters.
buildRequestBody(session, msgs) ==
    LET parametersData_ ==
            buildParametersArray(session.parameters, session.tools, session.profile)
    IN  [threw |-> parametersData_.threw,
         profile |-> session.profile,
         messages |-> AllMessages(session.systemMessage, msgs),
         data |-> parametersData_.data,
         warnings |-> parametersData_.warnings]

\* The profiles of the sessions looked at: one that supports the tool choice
\* parameters, one that does not, one that is not registered.
SessionProfiles == { "openai-gpt-4", "anthropic-claude-3-opus", "custom-model" }

SystemMessages ==
    { NoSystemMessage, SystemMessage(<<>>), SystemMessage(<<"s">>) }

\* The messages stream and step are called with.
Histories ==
    { <<>>,
      <<createUserMessage(<<"q">>)>>,
      <<createSystemMessage(<<"h">>), createUserMessage(<<"q">>)>>,
      <<createUserMessage(<<"q">>), createSystemMessage(<<"h">>)>> }

\* The session has been created and configured with the with* methods, and
\* the caller has its messages.
SessionInit ==
    /\ StreamIdle
    /\ AgentIdle
    /\ ClientIdle
    /\ profile \in SessionProfiles
    /\ tools \in ToolLists
    /\ systemMessage \in SystemMessages
    /\ parameters \in MapsOf(MaxSessionParams)
    /\ configured = Session(profile, tools, systemMessage, parameters)
    /\ history \in Histories
    /\ sessionForStream = NoSession
    /\ requestBody = NoRequest
    /\ parametersData = NotBuilt
    /\ warnings = <<>>

\* The request of one stream call on a session, from the head of the
\* generator to the fetch.
Request(op, forced, session) ==
    LET body == buildRequestBody(session, history) IN
    /\ requestBody' = [sent |-> TRUE, op |-> op, forced |-> forced,
                       afterForced |-> requestBody.forced \/ requestBody.afterForced,
                       history |-> history, threw |-> body.threw,
                       profile |-> body.profile, messages |-> body.messages,
                       used |-> session.parameters]
    /\ parametersData' = [built |-> TRUE, threw |-> body.threw, data |-> body.data]
    /\ warnings' = body.warnings

\* `session.stream(history)` is called and started.
SessionStream ==
    /\ LET this == Session(profile, tools, systemMessage, parameters) IN
         /\ sessionForStream' = this
         /\ Request("stream", FALSE, this)
    /\ UNCHANGED <<profile, tools, systemMessage, parameters, configured, history>>
    /\ UNCHANGED streamVars
    /\ UNCHANGED agentVars
    /\ UNCHANGED clientVars

\* `session.step(history, {forceTextResponse})` is called and started.
SessionStep ==
    /\ \E forced \in BOOLEAN :
         LET s == StepSessions(Session(profile, tools, systemMessage, parameters),
                               forced)
         IN  /\ profile' = s.this.profile
             /\ tools' = s.this.tools
             /\ systemMessage' = s.this.systemMessage
             /\ parameters' = s.this.parameters
             /\ sessionForStream' = s.forStream
             /\ Request("step", forced, s.forStream)
    /\ UNCHANGED <<configured, history>>
    /\ UNCHANGED streamVars
    /\ UNCHANGED agentVars
    /\ UNCHANGED clientVars

SessionNext == SessionStream \/ SessionStep

SpecSession == SessionInit /\ [][SessionNext]_vars

(***************************************************************************)
(* TaskSSEParser and TaskAPI.stream                                        *)
(***************************************************************************)
\* The lines of a task stream: "NoType" is a JSON payload without a type.
TaskLines ==
    { Plain("blank"), Plain("comment"), Plain("end"), Plain("malformed"),
      Plain("NoType"), Plain("Other"), ContentLine(<<"a">>),
      Plain("QuotaMetadata"), Plain("ExecutionMetadata"),
      Plain("FinishMetadata"), Plain("FunctionCallMetadata") }

TaskMetadata ==
    { "QuotaMetadata", "ExecutionMetadata", "FinishMetadata", "UnknownMetadata",
      "FunctionCallMetadata" }

\* TaskSSEParser.parseLine: the event returned (NoEvent for null) and whether
\* SSEError was thrown.
TaskParseLine(line) ==
    LET same == [event |-> NoEvent, thrown |-> FALSE]
    IN  CASE line.kind = "comment" -> same
          [] line.kind = "end" -> same
          [] line.kind = "malformed" -> [same EXCEPT !.thrown = TRUE]
          [] line.kind = "NoType" -> same
          [] line.kind = "Content" ->
                [same EXCEPT !.event = [type |-> "Content", content |-> line.content]]
          [] line.kind \in TaskMetadata ->
                [same EXCEPT !.event = [type |-> line.kind, data |-> line]]
          [] OTHER -> same

\* `if (line.trim()) { const event = parser.parseLine(line); if (event) yield event; }`
TaskHandleLine(line) ==
    IF line.kind \in {"blank", "none"}
    THEN [event |-> NoEvent, thrown |-> FALSE]
    ELSE TaskParseLine(line)

\* The request of TaskAPI.stream has been answered; the line loop starts.
TaskStreamInit ==
    /\ StreamIdle
    /\ AgentIdle
    /\ SessionIdle
    /\ TransportIdle
    /\ BuilderIdle
    /\ ChunkIdle
    /\ ParsersIdle
    /\ taskPc = "reading"
    /\ taskConsumed = <<>>
    /\ taskEvents = <<>>

\* One line of the line loop of TaskAPI.stream.
TaskStreamLine ==
    /\ taskPc = "reading"
    /\ Len(taskConsumed) < MaxLines
    /\ \E line \in TaskLines :
         LET r == TaskHandleLine(line) IN
           /\ taskConsumed' = Append(taskConsumed, line)
           /\ taskEvents' = Yielded(taskEvents, r)
           /\ taskPc' = IF r.thrown THEN "failed" ELSE "reading"
    /\ UNCHANGED <<streamVars, agentVars, sessionVars, transportVars, builderVars,
                   chunkVars, parsersVars>>

\* The byte stream ends: the rest of the buffer, if any, is parsed.
TaskStreamEnd ==
    /\ taskPc = "reading"
    /\ \E tail \in (IF Len(taskConsumed) < MaxLines THEN TaskLines ELSE {})
                     \cup {NoLine} :
         LET r == TaskHandleLine(tail) IN
           /\ taskConsumed' = IF tail = NoLine THEN taskConsumed
                              ELSE Append(taskConsumed, tail)
           /\ taskEvents' = Yielded(taskEvents, r)
           /\ taskPc' = IF r.thrown THEN "failed" ELSE "done"
    /\ UNCHANGED <<streamVars, agentVars, sessionVars, transportVars, builderVars,
                   chunkVars, parsersVars>>

TaskStreamNext == TaskStreamLine \/ TaskStreamEnd

\* A chat stream or a task stream.
StreamsInit == StreamInit \/ TaskStreamInit

StreamsNext == StreamNext \/ TaskStreamNext

SpecStreams == StreamsInit /\ [][StreamsNext]_vars

(***************************************************************************)
(* InternalHttpClient: _fetchWithRetry and _refreshToken                   *)
(***************************************************************************)
\* The paths the API classes call _fetchWithRetry with, and the path of the
\* refresh endpoint.
FetchPaths == { "/llm/chat/stream/v8", "/task/roster" }
RefreshPath == "/auth/jwt/refresh/v3"

\* What fetch settles with: a response (its status, whether it has a body,
\* the token of its JSON payload), or a rejection.
Response(status, hasBody, newToken) ==
    [rejects |-> FALSE, status |-> status, hasBody |-> hasBody, token |-> newToken]
FetchRejects == [rejects |-> TRUE, status |-> 0, hasBody |-> FALSE, token |-> Absent]

\* response.ok
Ok(response) == response.status >= 200 /\ response.status <= 299

FetchResponses ==
    { FetchRejects, Response(200, TRUE, Absent), Response(200, FALSE, Absent),
      Response(401, TRUE, Absent), Response(500, TRUE, Absent) }

RefreshResponses ==
    { FetchRejects, Response(200, TRUE, "t1"), Response(200, TRUE, "t2"),
      Response(200, TRUE, Absent), Response(401, TRUE, Absent),
      Response(500, TRUE, Absent) }

\* An entry of fetchLog: a fetch that was sent (its path and the token of its
\* Grazie-Authenticate-JWT header) or an event that was emitted.
Sent(path, jwt) ==
    [kind |-> "fetch", path |-> path, token |-> jwt, status |-> 0, name |-> Absent]
Emitted(kind, path, jwt, status, name) ==
    [kind |-> kind, path |-> path, token |-> jwt, status |-> status, name |-> name]
ErrorEvent(e) == Emitted("error", Absent, Absent, e.status, e.name)

\* _fetchWithRetry up to `await fetch(url, ...)`.
SendRequest(path, jwt) ==
    << Emitted("api_request", path, Absent, 0, Absent), Sent(path, jwt) >>

\* A client has been constructed with a token.
TransportInit ==
    /\ StreamIdle
    /\ AgentIdle
    /\ SessionIdle
    /\ BuilderIdle
    /\ TaskIdle
    /\ ChunkIdle
    /\ ParsersIdle
    /\ token = "t0"
    /\ fetchPc = "idle" /\ isRetry = FALSE /\ fetchPath = "none"
    /\ fetchCalls = 0 /\ fetchLog = <<>> /\ fetchError = NoError
    /\ lastResponse = NoResponse
    /\ fetchStack = <<>> /\ inFlight = <<>>

\* An API method calls _fetchWithRetry(path, options): the request is sent.
FetchWithRetry ==
    /\ fetchPc \in {"idle", "returned", "threw"}
    /\ fetchCalls < MaxFetchCalls
    /\ \E path \in FetchPaths :
         /\ fetchPath' = path
         /\ fetchLog' = SendRequest(path, token)
    /\ isRetry' = FALSE
    /\ fetchError' = NoError
    /\ fetchCalls' = fetchCalls + 1
    /\ fetchPc' = "fetching"
    /\ lastResponse' = NoResponse
    /\ UNCHANGED <<token, fetchStack, inFlight>>
    /\ UNCHANGED <<streamVars, agentVars, sessionVars, builderVars, taskVars,
                   chunkVars, parsersVars>>

\* The fetch of the request settles; _fetchWithRetry runs on to its return,
\* to its throw, or to the fetch of _refreshToken.
FetchSettles ==
    /\ fetchPc = "fetching"
    /\ \E response \in FetchResponses :
         /\ lastResponse' = response
         /\ LET answered == Append(fetchLog,
                    Emitted("api_response", fetchPath, Absent, response.status, Absent))
                statusError == APIStatusError(response.status)
                emptyBody == APIError(response.status)
            IN  IF response.rejects
                THEN /\ fetchLog' = fetchLog
                     /\ fetchError' = TypeError
                     /\ fetchPc' = "threw"
                ELSE IF ~Ok(response) /\ response.status = 401 /\ ~isRetry
                THEN /\ fetchLog' = answered
                           \o << Emitted("token_refresh_start", Absent, Absent, 0, Absent),
                                 Sent(RefreshPath, token) >>
                     /\ fetchError' = fetchError
                     /\ fetchPc' = "refreshing"
                ELSE IF ~Ok(response)
                THEN /\ fetchLog' = Append(answered, ErrorEvent(statusError))
                     /\ fetchError' = statusError
                     /\ fetchPc' = "threw"
                ELSE IF ~response.hasBody
                THEN /\ fetchLog' = Append(answered, ErrorEvent(emptyBody))
                     /\ fetchError' = emptyBody
                     /\ fetchPc' = "threw"
                ELSE /\ fetchLog' = answered
                     /\ fetchError' = fetchError
                     /\ fetchPc' = "returned"
    /\ UNCHANGED <<token, isRetry, fetchPath, fetchCalls, fetchStack, inFlight>>
    /\ UNCHANGED <<streamVars, agentVars, sessionVars, builderVars, taskVars,
                   chunkVars, parsersVars>>

\* RefreshSettles without `if (!data.token) throw ...`
RefreshSettlesWithoutTokenTest ==
    /\ fetchPc = "refreshing"
    /\ \E response \in RefreshResponses :
         /\ lastResponse' = response
         /\ LET refreshError ==
                    IF response.rejects THEN TypeError
                    ELSE IF ~Ok(response) THEN APIStatusError(response.status)
                    ELSE APIError(response.status)
            IN  IF ~response.rejects /\ Ok(response)
                THEN /\ token' = response.token
                     /\ fetchLog' = Append(fetchLog,
                            Emitted("token_refresh_success", Absent, response.token,
                                    0, Absent))
                          \o SendRequest(fetchPath, response.token)
                     /\ isRetry' = TRUE
                     /\ fetchError' = fetchError
                     /\ fetchPc' = "fetching"
                ELSE /\ token' = token
                     /\ fetchLog' = Append(fetchLog, ErrorEvent(refreshError))
                     /\ isRetry' = isRetry
                     /\ fetchError' = refreshError
                     /\ fetchPc' = "threw"
    /\ UNCHANGED <<fetchPath, fetchCalls, fetchStack, inFlight>>
    /\ UNCHANGED <<streamVars, agentVars, sessionVars, builderVars, taskVars,
                   chunkVars, parsersVars>>

\* RefreshSettles that retries with isRetry left false
RefreshSettlesUnflagged ==
    /\ fetchPc = "refreshing"
    /\ \E response \in RefreshResponses :
         /\ lastResponse' = response
         /\ LET refreshError ==
                    IF response.rejects THEN TypeError
                    ELSE IF ~Ok(response) THEN APIStatusError(response.status)
                    ELSE APIError(response.status)
            IN  IF ~response.rejects /\ Ok(response) /\ Truthy(response.token)
                THEN /\ token' = response.token
                     /\ fetchLog' = Append(fetchLog,
                            Emitted("token_refresh_success", Absent, response.token,
                                    0, Absent))
                          \o SendRequest(fetchPath, response.token)
                     /\ isRetry' = FALSE
                     /\ fetchError' = fetchError
                     /\ fetchPc' = "fetching"
                ELSE /\ token' = token
                     /\ fetchLog' = Append(fetchLog, ErrorEvent(refreshError))
                     /\ isRetry' = isRetry
                     /\ fetchError' = refreshError
                     /\ fetchPc' = "threw"
    /\ UNCHANGED <<fetchPath, fetchCalls, fetchStack, inFlight>>
    /\ UNCHANGED <<streamVars, agentVars, sessionVars, builderVars, taskVars,
                   chunkVars, parsersVars>>

\* The fetch of _refreshToken settles: _refreshToken throws and the catch of
\* _fetchWithRetry emits the error and throws it on, or it returns the token,
\* the token is stored and _fetchWithRetry(path, options, true) sends the
\* request again.
RefreshSettles ==
    /\ fetchPc = "refreshing"
    /\ \E response \in RefreshResponses :
         /\ lastResponse' = response
         /\ LET refreshError ==
                    IF response.rejects THEN TypeError
                    ELSE IF ~Ok(response) THEN APIStatusError(response.status)
                    ELSE APIError(response.status)
            IN  IF ~response.rejects /\ Ok(response) /\ Truthy(response.token)
                THEN /\ token' = response.token
                     /\ fetchLog' = Append(fetchLog,
                            Emitted("token_refresh_success", Absent, response.token,
                                    0, Absent))
                          \o SendRequest(fetchPath, response.token)
                     /\ isRetry' = TRUE
                     /\ fetchError' = fetchError
                     /\ fetchPc' = "fetching"
                ELSE /\ token' = token
                     /\ fetchLog' = Append(fetchLog, ErrorEvent(refreshError))
                     /\ isRetry' = isRetry
                     /\ fetchError' = refreshError
                     /\ fetchPc' = "threw"
    /\ UNCHANGED <<fetchPath, fetchCalls, fetchStack, inFlight>>
    /\ UNCHANGED <<streamVars, agentVars, sessionVars, builderVars, taskVars,
                   chunkVars, parsersVars>>

TransportNext == FetchWithRetry \/ FetchSettles \/ RefreshSettles

SpecTransport == TransportInit /\ [][TransportNext]_vars

(***************************************************************************)
(* ParameterBuilder: validation (v2.11.0), _build and withParameters       *)
(***************************************************************************)
\* The JavaScript values the setters are called with: undefined (<<>>, a call
\* without argument), numbers, booleans, strings (<<"">> is the empty one),
\* an object and null.
Numbers == { <<"0">>, <<"0.5">>, <<"1">>, <<"3">>, <<"NaN">> }

\* typeof
TypeOf(arg) ==
    CASE arg = <<>> -> "undefined"
      [] arg \in Numbers -> "number"
      [] arg \in { <<"true">>, <<"false">> } -> "boolean"
      [] arg \in { <<"{}">>, <<"null">> } -> "object"
      [] OTHER -> "string"

\* The value of a number, in tenths.
Tenths(arg) ==
    CASE arg = <<"0">> -> 0 [] arg = <<"0.5">> -> 5 [] arg = <<"1">> -> 10
      [] OTHER -> 30

\* `value < n`, `value > n`, `value <= n` for a number: every comparison with
\* NaN is false.
Less(arg, tenths) == arg # <<"NaN">> /\ Tenths(arg) < tenths
Greater(arg, tenths) == arg # <<"NaN">> /\ Tenths(arg) > tenths
AtMost(arg, tenths) == arg # <<"NaN">> /\ Tenths(arg) <= tenths

\* Number.isInteger
IsInteger(arg) == arg \in { <<"0">>, <<"1">>, <<"3">> }

\* The test each setter of v2.11.0 makes before it assigns.
Validators ==
       ("temperature" :> "range02") @@ ("topP" :> "range01")
    @@ ("topK" :> "positiveInteger") @@ ("length" :> "positiveInteger")
    @@ ("stopToken" :> "nonEmptyString") @@ ("seed" :> "integer")
    @@ ("asJson" :> "none") @@ ("toolChoiceAuto" :> "boolean")
    @@ ("toolChoiceRequired" :> "boolean") @@ ("toolChoiceNone" :> "boolean")
    @@ ("toolChoiceNamed" :> "nonEmptyString")
    @@ ("parallelToolCalls" :> "boolean") @@ ("reasoningEffort" :> "effort")
    @@ ("predictedOutput" :> "string") @@ ("cachePoints" :> "object")
    @@ ("thinkingBudget" :> "positiveInteger")
    @@ ("numberOfChoices" :> "positiveInteger")
    @@ ("verbosity" :> "nonEmptyString")

\* The setter of v2.11.0 does not throw: the negation of its `if (...) throw`.
Validates(method, arg) ==
    LET rule == Validators[method]
        value == IF rule = "boolean" /\ arg = <<>> THEN <<"true">> ELSE arg
    IN  CASE rule = "range02" ->
               ~(TypeOf(value) # "number" \/ Less(value, 0) \/ Greater(value, 20))
          [] rule = "range01" ->
               ~(TypeOf(value) # "number" \/ Less(value, 0) \/ Greater(value, 10))
          [] rule = "positiveInteger" -> ~(~IsInteger(value) \/ AtMost(value, 0))
          [] rule = "integer" -> ~(~IsInteger(value))
          [] rule = "nonEmptyString" ->
               ~(TypeOf(value) # "string" \/ value = <<"">>)
          [] rule = "string" -> ~(TypeOf(value) # "string")
          [] rule = "boolean" -> ~(TypeOf(value) # "boolean")
          [] rule = "effort" -> value \in { <<"low">>, <<"medium">>, <<"high">> }
          [] rule = "object" -> ~(TypeOf(value) # "object" \/ value = <<"null">>)
          [] OTHER -> TRUE

\* The arguments a setter is called with: some it is meant for, some not.
SetterArgs(method) ==
    LET rule == Validators[method] IN
    CASE rule = "range02" -> { <<"1">>, <<"3">>, <<"f">>, <<"NaN">> }
      [] rule = "range01" -> { <<"0.5">>, <<"3">>, <<"NaN">> }
      [] rule = "positiveInteger" -> { <<"1">>, <<"0">>, <<"0.5">> }
      [] rule = "integer" -> { <<"1">>, <<"0.5">> }
      [] rule = "nonEmptyString" -> { <<"f">>, <<"">>, <<"1">> }
      [] rule = "string" -> { <<"f">>, <<"1">> }
      [] rule = "boolean" -> { <<>>, <<"false">>, <<"f">> }
      [] rule = "effort" -> { <<"low">>, <<"f">> }
      [] rule = "object" -> { <<"{}">>, <<"null">>, <<"f">> }
      [] OTHER -> { <<>> }

SetterCalls ==
    { c \in [method : DOMAIN Validators,
             arg : UNION { SetterArgs(m) : m \in DOMAIN Validators }] :
        c.arg \in SetterArgs(c.method) }

\* The objects of withParameters: the `{}` the field #parameters starts with,
\* and the `{}` of the #params of `new ParameterBuilder()`.
SessionObject == 1
BuilderObject == 2

\* `_build() { return this.#params; }`: the reference returned.
BuildReturns == BuilderObject

\* withParameters has constructed the builder and calls builderFn.
BuilderInit ==
    /\ StreamIdle
    /\ AgentIdle
    /\ SessionIdle
    /\ TransportIdle
    /\ TaskIdle
    /\ ChunkIdle
    /\ ParsersIdle
    /\ builderVersion \in { "2.11.0", "2.14.0" }
    /\ objects = << <<>>, <<>> >>
    /\ parametersRef = SessionObject
    /\ built = NotReturned
    /\ lastCall = NoCall

\* A setter of the builder is called, by builderFn or, after withParameters,
\* by a caller that kept the builder: that of v2.11.0 throws when its test
\* fails, that of v2.14.0 assigns.
SetterCall ==
    /\ lastCall.count < MaxBuilderCalls
    /\ \E call \in SetterCalls :
         LET passes == builderVersion = "2.14.0" \/ Validates(call.method, call.arg)
         IN  /\ objects' = IF passes
                           THEN [objects EXCEPT ![BuilderObject] =
                                    CallMethod(@, call.method, call.arg)]
                           ELSE objects
             /\ lastCall' = [method |-> call.method, arg |-> call.arg,
                             threw |-> ~passes, before |-> objects[BuilderObject],
                             count |-> lastCall.count + 1]
    /\ UNCHANGED <<builderVersion, parametersRef, built>>
    /\ UNCHANGED <<streamVars, agentVars, sessionVars, transportVars, taskVars,
                   chunkVars, parsersVars>>

\* builderFn returns the builder: `this.#parameters = builderFn(builder)._build()`.
WithParametersReturns ==
    /\ built.ref = 0
    /\ built' = [ref |-> BuildReturns, map |-> objects[BuildReturns]]
    /\ parametersRef' = BuildReturns
    /\ UNCHANGED <<builderVersion, objects, lastCall>>
    /\ UNCHANGED <<streamVars, agentVars, sessionVars, transportVars, taskVars,
                   chunkVars, parsersVars>>

BuilderNext == SetterCall \/ WithParametersReturns

SpecBuilder == BuilderInit /\ [][BuilderNext]_vars

(***************************************************************************)
(* ChatSession.run of v2.11.0                                              *)
(***************************************************************************)
\* `#maxToolIterations = 5`
maxToolIterations == 5

\* ParseLineV211 whose catch also clears the accumulator
ParseLineV211ClearsOnError(p, line) ==
    LET same == [parser |-> p, event |-> NoEvent, thrown |-> FALSE]
    IN  CASE line.kind = "comment" -> same
          [] line.kind = "end" -> same
          [] line.kind = "malformed" -> [same EXCEPT !.parser.toolCallsInProgress = <<>>]
          [] line.kind = "Content" ->
                [same EXCEPT !.event = [type |-> "text", content |-> line.content]]
          [] line.kind = "ToolCall" ->
                [same EXCEPT !.parser.toolCallsInProgress =
                                 MergeFragment(p.toolCallsInProgress, line)]
          [] line.kind = "FinishMetadata" ->
                IF line.reason \in {"tool_call", "tool_calls", "stop"}
                THEN [same EXCEPT
                        !.parser.finalizedToolCalls =
                            p.finalizedToolCalls
                              \o CallsOf(SortEntries(p.toolCallsInProgress)),
                        !.parser.toolCallsInProgress = <<>>]
                ELSE same
          [] line.kind = "QuotaMetadata" -> [same EXCEPT !.event = [type |-> "quota"]]
          [] OTHER -> same

\* SSEParser.parseLine of v2.11.0: the parser afterwards and the event returned
\* (NoEvent for null); its `catch (e) { return null; }` throws nothing.
ParseLineV211(p, line) ==
    LET same == [parser |-> p, event |-> NoEvent, thrown |-> FALSE]
    IN  CASE line.kind = "comment" -> same
          [] line.kind = "end" -> same
          [] line.kind = "malformed" -> same
          [] line.kind = "Content" ->
                [same EXCEPT !.event = [type |-> "text", content |-> line.content]]
          [] line.kind = "ToolCall" ->
                [same EXCEPT !.parser.toolCallsInProgress =
                                 MergeFragment(p.toolCallsInProgress, line)]
          [] line.kind = "FinishMetadata" ->
                IF line.reason \in {"tool_call", "tool_calls", "stop"}
                THEN [same EXCEPT
                        !.parser.finalizedToolCalls =
                            p.finalizedToolCalls
                              \o CallsOf(SortEntries(p.toolCallsInProgress)),
                        !.parser.toolCallsInProgress = <<>>]
                ELSE same
          [] line.kind = "QuotaMetadata" -> [same EXCEPT !.event = [type |-> "quota"]]
          [] OTHER -> same

\* ChatSession.stream of v2.11.0 run over all the lines of a response.
RECURSIVE StreamOfV211(_, _, _)
StreamOfV211(p, lines, evs) ==
    IF lines = <<>>
    THEN evs \o ToolCallsEvent(p.finalizedToolCalls)
    ELSE LET r == IF Head(lines).kind = "blank"
                  THEN [parser |-> p, event |-> NoEvent, thrown |-> FALSE]
                  ELSE ParseLineV211(p, Head(lines))
         IN  StreamOfV211(r.parser, Tail(lines), Yielded(evs, r))

TurnOutcomesV211 == { StreamOfV211(NewParser, lines, <<>>) : lines \in TurnStreams }

\* `for await (const event of stream) { ... }` of run: the toolCalls and the
\* assistantResponse it leaves.
RECURSIVE Collected(_, _)
Collected(evs, sofar) ==
    IF evs = <<>> THEN sofar
    ELSE Collected(Tail(evs),
           CASE Head(evs).type = "text" ->
                  [sofar EXCEPT !.text = AppendText(@, Head(evs).content)]
             [] Head(evs).type = "tool_calls" ->
                  [sofar EXCEPT !.calls = Head(evs).calls]
             [] OTHER -> sofar)

\* `Array.isArray(initialInput) ? initialInput : [createUserMessage(initialInput)]`:
\* whether run's `messages` is the very array the caller passed.
IsCallersArray(input) == input.isArray

\* run of v2.11.0 has been called.
RunV211Init ==
    /\ StreamIdle
    /\ ClientIdle
    /\ profile = "none" /\ tools \in ToolLibraries
    /\ systemMessage = NoSystemMessage /\ parameters = <<>>
    /\ sessionForStream = NoSession /\ requestBody = NoRequest
    /\ configured = NoSession /\ history = <<>>
    /\ parametersData = NotBuilt /\ warnings = <<>>
    /\ maxIterations = maxToolIterations
    /\ initialInput \in InitialInputs
    /\ callerArray = IF initialInput.isArray THEN initialInput.value ELSE <<>>
    /\ messages = IF initialInput.isArray THEN initialInput.value
                  ELSE <<createUserMessage(initialInput.value)>>
    /\ runPc = "loop" /\ i = 0 /\ result = <<>>
    /\ stepPc = "idle" /\ stepMessages = <<>> /\ forceTextResponse = FALSE
    /\ streamEvents = <<>> /\ streamThrows = FALSE /\ evPos = 0
    /\ toolCalls = <<>> /\ assistantResponse = <<>> /\ finalMessages = <<>>
    /\ toolResults = <<>> /\ stepValue = NoValue /\ log = <<>>
    /\ promises = <<>> /\ settleOrder = <<>>
    /\ streamError = NoError /\ runError = NoError

\* One pass of the loop up to the end of its stream: the request fails and run
\* rejects, or the stream is read to its end and run returns the text, or it
\* has tool calls to execute.
RunV211Streams ==
    /\ runPc = "loop"
    /\ i < maxIterations
    /\ \/ \E e \in RequestErrors :
            /\ runError' = e
            /\ runPc' = "raised"
            /\ UNCHANGED <<toolCalls, assistantResponse, result>>
       \/ \E evs \in TurnOutcomesV211 :
            LET got == Collected(evs, [calls |-> <<>>, text |-> <<>>]) IN
            /\ toolCalls' = got.calls
            /\ assistantResponse' = got.text
            /\ IF Len(got.calls) > 0
               THEN runPc' = "executing" /\ result' = result
               ELSE runPc' = "returned" /\ result' = got.text
            /\ runError' = runError
    /\ UNCHANGED <<promises, settleOrder, callerArray, streamError, maxIterations,
                   initialInput, i, messages, stepPc, stepMessages,
                   forceTextResponse, streamEvents, streamThrows, evPos,
                   finalMessages, toolResults, stepValue, log>>
    /\ UNCHANGED streamVars
    /\ UNCHANGED sessionVars
    /\ UNCHANGED clientVars

\* `await executeTools(toolCalls, this.#tools)` and the rest of the pass: the
\* payload is pushed onto `messages`.
RunV211Tools ==
    /\ runPc = "executing"
    /\ \E outcomes \in [1..Len(toolCalls) -> {"returns", "throwsError", "throwsNull"}] :
         LET started == executeTools(toolCalls, tools)
             settled == [k \in 1..Len(toolCalls) |->
                            IF started[k].state = "pending"
                            THEN SettleOne(toolCalls[k], outcomes[k])
                            ELSE started[k]]
         IN  /\ \A k \in 1..Len(toolCalls) :
                  IF started[k].state = "pending"
                  THEN outcomes[k] \in ExecuteOutcomes(toolCalls[k].name)
                  ELSE outcomes[k] = "returns"
             /\ IF Rejected(settled)
                THEN /\ runError' = TypeError
                     /\ runPc' = "raised"
                     /\ UNCHANGED <<toolResults, messages, callerArray, i>>
                ELSE /\ toolResults' = [k \in 1..Len(settled) |-> settled[k].result]
                     /\ messages' = AppendToolExchange(messages, toolCalls, toolResults')
                     /\ callerArray' = IF IsCallersArray(initialInput) THEN messages'
                                       ELSE callerArray
                     /\ i' = i + 1
                     /\ runPc' = "loop"
                     /\ runError' = runError
    /\ UNCHANGED <<promises, settleOrder, streamError, maxIterations, initialInput,
                   result, stepPc, stepMessages, forceTextResponse, streamEvents,
                   streamThrows, evPos, toolCalls, assistantResponse,
                   finalMessages, stepValue, log>>
    /\ UNCHANGED streamVars
    /\ UNCHANGED sessionVars
    /\ UNCHANGED clientVars

\* `throw new Error('Exceeded maximum tool iteration limit of 5.')`
RunV211Exhausted ==
    /\ runPc = "loop"
    /\ ~(i < maxIterations)
    /\ runError' = [name |-> "Error", status |-> 0]
    /\ runPc' = "raised"
    /\ UNCHANGED <<promises, settleOrder, callerArray, streamError, maxIterations,
                   initialInput, i, messages, result, stepPc, stepMessages,
                   forceTextResponse, streamEvents, streamThrows, evPos, toolCalls,
                   assistantResponse, finalMessages, toolResults, stepValue, log>>
    /\ UNCHANGED streamVars
    /\ UNCHANGED sessionVars
    /\ UNCHANGED clientVars

RunV211Next == RunV211Streams \/ RunV211Tools \/ RunV211Exhausted

SpecRunV211 == RunV211Init /\ [][RunV211Next]_vars

(***************************************************************************)
(* MerciClient of v2.11.0: _fetchWithRetry and _refreshToken               *)
(***************************************************************************)
\* A _fetchWithRetry call that has not returned: its path and its isRetry.
\* The last call of fetchStack awaits its fetch; every call under it awaits
\* `this._refreshToken()`, which awaits the call above it.
Frame(path, retry) == [path |-> path, isRetry |-> retry]

\* What fetch settles with for a path.
ResponsesV211(path) == IF path = RefreshPath THEN RefreshResponses ELSE FetchResponses

\* `catch (refreshError) { this.emit('error', refreshError); throw refreshError; }`
\* of every call that awaits a refresh.
Rethrown(e, callers) == [k \in 1..Len(callers) |-> ErrorEvent(e)]

\* An API method calls _fetchWithRetry(path, options): the request is sent.
FetchWithRetryV211 ==
    /\ fetchPc \in {"idle", "returned", "threw"}
    /\ fetchCalls < MaxFetchCalls
    /\ \E path \in FetchPaths :
         /\ fetchPath' = path
         /\ fetchStack' = <<Frame(path, FALSE)>>
         /\ fetchLog' = SendRequest(path, token)
    /\ fetchError' = NoError
    /\ fetchCalls' = fetchCalls + 1
    /\ fetchPc' = "fetching"
    /\ lastResponse' = NoResponse
    /\ UNCHANGED <<token, isRetry, inFlight>>
    /\ UNCHANGED <<streamVars, agentVars, sessionVars, builderVars, taskVars,
                   chunkVars, parsersVars>>

\* The fetch of the innermost call settles. The call throws, and the error
\* passes through the catch of every call that waits for it; or it calls
\* _refreshToken, which calls _fetchWithRetry for the refresh path; or it
\* returns: to the API method, or to the _refreshToken of the call under it,
\* which stores the token and sends its own request again.
FetchSettlesV211 ==
    /\ fetchPc = "fetching"
    /\ fetchStack # <<>>
    /\ LET top == fetchStack[Len(fetchStack)]
           callers == SubSeq(fetchStack, 1, Len(fetchStack) - 1)
       IN  \E response \in ResponsesV211(top.path) :
             /\ (response.status = 401 /\ ~top.isRetry) =>
                    Len(fetchStack) <= MaxRefreshDepth
             /\ lastResponse' = response
             /\ LET answered == Append(fetchLog,
                        Emitted("api_response", top.path, Absent,
                                response.status, Absent))
                    apiError == APIError(response.status)
                    Throws(e, emitted) ==
                        /\ fetchLog' = emitted \o Rethrown(e, callers)
                        /\ fetchError' = e
                        /\ fetchPc' = "threw"
                        /\ fetchStack' = <<>>
                        /\ token' = token
                IN  IF response.rejects
                    THEN Throws(TypeError, fetchLog)
                    ELSE IF ~Ok(response) /\ response.status = 401 /\ ~top.isRetry
                    THEN /\ fetchLog' = Append(answered,
                               Emitted("token_refresh_start", Absent, Absent, 0, Absent))
                               \o SendRequest(RefreshPath, token)
                         /\ fetchStack' = Append(fetchStack, Frame(RefreshPath, FALSE))
                         /\ UNCHANGED <<fetchError, fetchPc, token>>
                    ELSE IF ~Ok(response) \/ ~response.hasBody
                    THEN Throws(apiError, Append(answered, ErrorEvent(apiError)))
                    ELSE IF callers = <<>>
                    THEN /\ fetchLog' = answered
                         /\ fetchPc' = "returned"
                         /\ fetchStack' = <<>>
                         /\ UNCHANGED <<fetchError, token>>
                    ELSE IF ~Truthy(response.token)
                    THEN Throws(apiError, answered)
                    ELSE LET caller == callers[Len(callers)] IN
                         /\ token' = response.token
                         /\ fetchLog' = Append(answered,
                               Emitted("token_refresh_success", Absent,
                                       response.token, 0, Absent))
                               \o SendRequest(caller.path, response.token)
                         /\ fetchStack' = SubSeq(callers, 1, Len(callers) - 1)
                                            \o <<Frame(caller.path, TRUE)>>
                         /\ UNCHANGED <<fetchError, fetchPc>>
    /\ UNCHANGED <<isRetry, fetchPath, fetchCalls, inFlight>>
    /\ UNCHANGED <<streamVars, agentVars, sessionVars, builderVars, taskVars,
                   chunkVars, parsersVars>>

TransportV211Next == FetchWithRetryV211 \/ FetchSettlesV211

SpecTransportV211 == TransportInit /\ [][TransportV211Next]_vars

(***************************************************************************)
(* Two _fetchWithRetry calls in flight on one InternalHttpClient           *)
(***************************************************************************)
\* One of the calls: its path, its isRetry and where it stands ("idle" before
\* it is made, then "fetching", "refreshing", "returned" or "threw").
Call(path, retry, pc) == [path |-> path, isRetry |-> retry, pc |-> pc]

\* Two API methods are about to call the transport of one client.
ConcurrentInit ==
    /\ StreamIdle
    /\ AgentIdle
    /\ SessionIdle
    /\ BuilderIdle
    /\ TaskIdle
    /\ ChunkIdle
    /\ ParsersIdle
    /\ token = "t0"
    /\ fetchPc = "idle" /\ isRetry = FALSE /\ fetchPath = "none"
    /\ fetchCalls = 0 /\ fetchLog = <<>> /\ fetchError = NoError
    /\ lastResponse = NoResponse
    /\ fetchStack = <<>>
    /\ inFlight = << Call("/llm/chat/stream/v8", FALSE, "idle"),
                     Call("/task/roster", FALSE, "idle") >>

\* An API method calls _fetchWithRetry(path, options): the request is sent
\* with the token the client holds at that moment.
ConcurrentFetchWithRetry ==
    /\ \E c \in 1..Len(inFlight) :
         /\ inFlight[c].pc = "idle"
         /\ inFlight' = [inFlight EXCEPT ![c].pc = "fetching"]
         /\ fetchLog' = fetchLog \o SendRequest(inFlight[c].path, token)
    /\ fetchCalls' = fetchCalls + 1
    /\ UNCHANGED <<token, fetchPc, isRetry, fetchPath, fetchError, lastResponse,
                   fetchStack>>
    /\ UNCHANGED <<streamVars, agentVars, sessionVars, builderVars, taskVars,
                   chunkVars, parsersVars>>

\* ConcurrentFetchSettles of a client with a single-flight refresh: a call
\* answered 401 while another call refreshes sends no refresh of its own
ConcurrentFetchSettlesSingleFlight ==
    /\ \E c \in 1..Len(inFlight) :
         /\ inFlight[c].pc = "fetching"
         /\ \E response \in FetchResponses :
              /\ lastResponse' = response
              /\ LET call == inFlight[c]
                     answered == Append(fetchLog,
                         Emitted("api_response", call.path, Absent,
                                 response.status, Absent))
                     statusError == APIStatusError(response.status)
                     emptyBody == APIError(response.status)
                     refreshing == \E d \in 1..Len(inFlight) :
                                       inFlight[d].pc = "refreshing"
                 IN  IF response.rejects
                     THEN /\ fetchLog' = fetchLog
                          /\ inFlight' = [inFlight EXCEPT ![c].pc = "threw"]
                     ELSE IF ~Ok(response) /\ response.status = 401 /\ ~call.isRetry
                     THEN /\ fetchLog' = Append(answered,
                                Emitted("token_refresh_start", Absent, Absent, 0, Absent))
                                \o (IF refreshing THEN <<>>
                                    ELSE <<Sent(RefreshPath, token)>>)
                          /\ inFlight' = [inFlight EXCEPT ![c].pc = "refreshing"]
                     ELSE IF ~Ok(response)
                     THEN /\ fetchLog' = Append(answered, ErrorEvent(statusError))
                          /\ inFlight' = [inFlight EXCEPT ![c].pc = "threw"]
                     ELSE IF ~response.hasBody
                     THEN /\ fetchLog' = Append(answered, ErrorEvent(emptyBody))
                          /\ inFlight' = [inFlight EXCEPT ![c].pc = "threw"]
                     ELSE /\ fetchLog' = answered
                          /\ inFlight' = [inFlight EXCEPT ![c].pc = "returned"]
    /\ UNCHANGED <<token, fetchPc, isRetry, fetchPath, fetchCalls, fetchError,
                   fetchStack>>
    /\ UNCHANGED <<streamVars, agentVars, sessionVars, builderVars, taskVars,
                   chunkVars, parsersVars>>

\* The fetch of the request of one of the calls settles; the call runs on to
\* its return, to its throw, or to the fetch of its own _refreshToken.
ConcurrentFetchSettles ==
    /\ \E c \in 1..Len(inFlight) :
         /\ inFlight[c].pc = "fetching"
         /\ \E response \in FetchResponses :
              /\ lastResponse' = response
              /\ LET call == inFlight[c]
                     answered == Append(fetchLog,
                         Emitted("api_response", call.path, Absent,
                                 response.status, Absent))
                     statusError == APIStatusError(response.status)
                     emptyBody == APIError(response.status)
                 IN  IF response.rejects
                     THEN /\ fetchLog' = fetchLog
                          /\ inFlight' = [inFlight EXCEPT ![c].pc = "threw"]
                     ELSE IF ~Ok(response) /\ response.status = 401 /\ ~call.isRetry
                     THEN /\ fetchLog' = Append(answered,
                                Emitted("token_refresh_start", Absent, Absent, 0, Absent))
                                \o <<Sent(RefreshPath, token)>>
                          /\ inFlight' = [inFlight EXCEPT ![c].pc = "refreshing"]
                     ELSE IF ~Ok(response)
                     THEN /\ fetchLog' = Append(answered, ErrorEvent(statusError))
                          /\ inFlight' = [inFlight EXCEPT ![c].pc = "threw"]
                     ELSE IF ~response.hasBody
                     THEN /\ fetchLog' = Append(answered, ErrorEvent(emptyBody))
                          /\ inFlight' = [inFlight EXCEPT ![c].pc = "threw"]
                     ELSE /\ fetchLog' = answered
                          /\ inFlight' = [inFlight EXCEPT ![c].pc = "returned"]
    /\ UNCHANGED <<token, fetchPc, isRetry, fetchPath, fetchCalls, fetchError,
                   fetchStack>>
    /\ UNCHANGED <<streamVars, agentVars, sessionVars, builderVars, taskVars,
                   chunkVars, parsersVars>>

\* The fetch of the _refreshToken of one of the calls settles: the call throws,
\* or it stores the token and sends its request again.
ConcurrentRefreshSettles ==
    /\ \E c \in 1..Len(inFlight) :
         /\ inFlight[c].pc = "refreshing"
         /\ \E response \in RefreshResponses :
              /\ lastResponse' = response
              /\ LET refreshError ==
                         IF response.rejects THEN TypeError
                         ELSE IF ~Ok(response) THEN APIStatusError(response.status)
                         ELSE APIError(response.status)
                 IN  IF ~response.rejects /\ Ok(response) /\ Truthy(response.token)
                     THEN /\ token' = response.token
                          /\ fetchLog' = Append(fetchLog,
                                 Emitted("token_refresh_success", Absent,
                                         response.token, 0, Absent))
                               \o SendRequest(inFlight[c].path, response.token)
                          /\ inFlight' = [inFlight EXCEPT ![c].isRetry = TRUE,
                                                          ![c].pc = "fetching"]
                     ELSE /\ token' = token
                          /\ fetchLog' = Append(fetchLog, ErrorEvent(refreshError))
                          /\ inFlight' = [inFlight EXCEPT ![c].pc = "threw"]
    /\ UNCHANGED <<fetchPc, isRetry, fetchPath, fetchCalls, fetchError, fetchStack>>
    /\ UNCHANGED <<streamVars, agentVars, sessionVars, builderVars, taskVars,
                   chunkVars, parsersVars>>

ConcurrentNext ==
    ConcurrentFetchWithRetry \/ ConcurrentFetchSettles \/ ConcurrentRefreshSettles

SpecConcurrent == ConcurrentInit /\ [][ConcurrentNext]_vars

(***************************************************************************)
(* ChatSession.stream reading the response body chunk by chunk             *)
(***************************************************************************)
\* The characters of a response body. "d" stands for the prefix 'data: ', "T"
\* for the JSON text of a Content payload, "F" for that of a ToolCall fragment,
\* "S" for that of a FinishMetadata payload with reason tool_calls.
WireChars == { "d", "T", "F", "S", "\n" }
WireTexts == UNION { [1..n -> WireChars] : n \in 0..MaxWireLen }

\* text.split('\n')
RECURSIVE Split(_)
Split(text) ==
    IF \A k \in 1..Len(text) : text[k] # "\n" THEN <<text>>
    ELSE LET k == CHOOSE n \in 1..Len(text) :
                      text[n] = "\n" /\ \A j \in 1..(n - 1) : text[j] # "\n"
         IN  <<SubSeq(text, 1, k - 1)>> \o Split(SubSeq(text, k + 1, Len(text)))

\* text.trim()
Trim(text) ==
    LET inked == { k \in 1..Len(text) : text[k] \notin {" ", "\n"} } IN
    IF inked = {} THEN <<>>
    ELSE SubSeq(text, CHOOSE k \in inked : \A j \in inked : k <= j,
                      CHOOSE k \in inked : \A j \in inked : j <= k)

\* What a line of text is to the line loop and to parseLine: blank when
\* line.trim() is empty, a comment without the prefix, else the payload
\* JSON.parse gives (it skips blanks around the text), and malformed when
\* JSON.parse throws.
DecodeLine(text) ==
    IF Trim(text) = <<>> THEN Plain("blank")
    ELSE IF text[1] # "d" THEN Plain("comment")
    ELSE LET payload == Trim(Tail(text)) IN
         CASE payload = <<"T">> -> ContentLine(<<"a">>)
           [] payload = <<"F">> -> Fragment(0, "c", "f", <<"{">>)
           [] payload = <<"S">> -> FinishLine("tool_calls")
           [] OTHER -> Plain("malformed")

\* `for (const line of lines) { if (line.trim()) { ... yield event; } }`: the
\* parser and the events after the lines, up to a line that makes parseLine
\* throw.
RECURSIVE HandleLines(_, _, _, _)
HandleLines(p, evs, taken, lines) ==
    IF lines = <<>>
    THEN [parser |-> p, events |-> evs, consumed |-> taken, thrown |-> FALSE]
    ELSE LET line == DecodeLine(Head(lines))
             r == HandleLine(p, line)
         IN  IF r.thrown
             THEN [parser |-> p, events |-> evs, consumed |-> Append(taken, line),
                   thrown |-> TRUE]
             ELSE HandleLines(r.parser, Yielded(evs, r), Append(taken, line),
                              Tail(lines))

\* Buffered that forgets what the buffer held
BufferedChunkOnly(held, chunk) == chunk

\* `buffer += chunk`
Buffered(held, chunk) == held \o chunk

\* `lines.pop() || ''` and the lines before it
AllButLast(lines) == SubSeq(lines, 1, Len(lines) - 1)
Last(lines) == lines[Len(lines)]

Sum(sizes) == IF sizes = <<>> THEN 0
              ELSE LET RECURSIVE Add(_)
                       Add(k) == IF k = 0 THEN 0 ELSE sizes[k] + Add(k - 1)
                   IN  Add(Len(sizes))

\* stream has sent its request and the response has arrived.
ChunkInit ==
    /\ streamPc = "reading"
    /\ consumed = <<>>
    /\ toolCallsInProgress = NewParser.toolCallsInProgress
    /\ finalizedToolCalls = NewParser.finalizedToolCalls
    /\ sortedCalls = <<>>
    /\ events = <<>>
    /\ AgentIdle
    /\ SessionIdle
    /\ TransportIdle
    /\ BuilderIdle
    /\ TaskIdle
    /\ ParsersIdle
    /\ wireText \in WireTexts
    /\ delivered = <<>>
    /\ buffer = <<>>

\* One pass of `for await (const chunk of stream)`: a chunk of any size.
StreamChunk ==
    /\ streamPc = "reading"
    /\ Sum(delivered) < Len(wireText)
    /\ \E size \in 1..(Len(wireText) - Sum(delivered)) :
         LET chunk == SubSeq(wireText, Sum(delivered) + 1, Sum(delivered) + size)
             lines == Split(Buffered(buffer, chunk))
             r == HandleLines(Parser, events, consumed, AllButLast(lines))
         IN  /\ delivered' = Append(delivered, size)
             /\ buffer' = Last(lines)
             /\ consumed' = r.consumed
             /\ toolCallsInProgress' = r.parser.toolCallsInProgress
             /\ finalizedToolCalls' = r.parser.finalizedToolCalls
             /\ events' = r.events
             /\ streamPc' = IF r.thrown THEN "failed" ELSE "reading"
    /\ UNCHANGED <<sortedCalls, wireText>>
    /\ UNCHANGED <<agentVars, sessionVars, transportVars, builderVars, taskVars,
                   parsersVars>>

\* The body has ended: the rest of the buffer is parsed, then the finalized
\* calls are yielded.
StreamChunksEnd ==
    /\ streamPc = "reading"
    /\ Sum(delivered) = Len(wireText)
    /\ LET r == HandleLines(Parser, events, consumed,
                            IF Trim(buffer) # <<>> THEN <<buffer>> ELSE <<>>)
       IN  /\ consumed' = r.consumed
           /\ toolCallsInProgress' = r.parser.toolCallsInProgress
           /\ finalizedToolCalls' = r.parser.finalizedToolCalls
           /\ events' = IF r.thrown THEN r.events
                        ELSE r.events \o ToolCallsEvent(r.parser.finalizedToolCalls)
           /\ streamPc' = IF r.thrown THEN "failed" ELSE "done"
    /\ UNCHANGED <<sortedCalls, chunkVars>>
    /\ UNCHANGED <<agentVars, sessionVars, transportVars, builderVars, taskVars,
                   parsersVars>>

ChunkNext == StreamChunk \/ StreamChunksEnd

SpecChunks == ChunkInit /\ [][ChunkNext]_vars

(***************************************************************************)
(* An SSEParser of v2.11.0 and one of v2.14.0 given the same lines         *)
(***************************************************************************)
ParsersInit ==
    /\ StreamIdle
    /\ AgentIdle
    /\ SessionIdle
    /\ TransportIdle
    /\ BuilderIdle
    /\ TaskIdle
    /\ ChunkIdle
    /\ parserV211 = NewParser
    /\ returned = NoReturns

\* parseLine(line) on both parsers; the SSEError of v2.14.0 is caught by the
\* caller, who goes on to the next line.
ParseLineBoth ==
    /\ Len(consumed) < MaxLines
    /\ \E line \in StreamLines :
          LET r211 == ParseLineV211(parserV211, line)
              r214 == ParseLine(Parser, line)
          IN  /\ consumed' = Append(consumed, line)
              /\ parserV211' = r211.parser
              /\ toolCallsInProgress' = r214.parser.toolCallsInProgress
              /\ finalizedToolCalls' = r214.parser.finalizedToolCalls
              /\ returned' = [v211 |-> [event |-> r211.event, thrown |-> r211.thrown],
                              v214 |-> [event |-> r214.event, thrown |-> r214.thrown]]
    /\ UNCHANGED <<streamPc, events, sortedCalls>>
    /\ UNCHANGED <<agentVars, sessionVars, transportVars, builderVars, taskVars,
                   chunkVars>>

ParsersNext == ParseLineBoth

SpecParsers == ParsersInit /\ [][ParsersNext]_vars

(***************************************************************************)
(* Properties of step and run                                              *)
(***************************************************************************)
LogPositions(kind, t) ==
    { k \in 1..Len(log) : log[k].kind = kind /\ log[k].turn = t }

IsRequest(e) == e.kind = "request"
Requests == SelectSeq(log, IsRequest)

IsBatch(e) == e.kind = "execute_tools"
Batches == SelectSeq(log, IsBatch)

\* The turn of the step invocation the step variables belong to.
StepTurn == Requests[Len(Requests)].turn

\* The calls of the turn's stream: those of its tool_calls event, if it has one.
TurnCalls ==
    LET at == { k \in 1..Len(streamEvents) : streamEvents[k].type = "tool_calls" }
    IN  IF at = {} THEN <<>> ELSE streamEvents[CHOOSE k \in at : TRUE].calls

\* The text of the turn's stream: the contents of its text events, in order.
RECURSIVE TextOf(_)
TextOf(evs) ==
    IF evs = <<>> THEN <<>>
    ELSE (IF Head(evs).type = "text" THEN Head(evs).content ELSE <<>>)
           \o TextOf(Tail(evs))

\* C5: when the stream of a step held tool calls, step yields one tool_request
\* with those calls and is suspended: while it is, its history is the input
\* history and the turn has seen one model request; every invocation of step
\* issues exactly one model request.
C5_StepSuspendsOnToolRequest ==
    /\ stepPc = "yielded" =>
         /\ Len(TurnCalls) > 0
         /\ stepValue = [type |-> "tool_request", calls |-> TurnCalls]
         /\ finalMessages = stepMessages
         /\ messages = stepMessages
    /\ (stepPc \in {"yielded", "returned"} /\ Len(TurnCalls) > 0) =>
         Cardinality(LogPositions("tool_request", StepTurn)) = 1
    /\ \A t \in 0..maxIterations :
         /\ Cardinality(LogPositions("request", t)) <= 1
         /\ (\E k \in 1..Len(log) : log[k].turn = t) =>
                Cardinality(LogPositions("request", t)) = 1

\* step is suspended on a request for two calls, and the tools have run.
C5_Witness ==
    /\ stepPc = "yielded"
    /\ runPc = "resuming"
    /\ Len(toolCalls) = 2
    /\ Len(stepMessages) > 0

\* C6: after a tool round-trip through step, resumed with one result per call,
\* the returned messages are the input history followed by one pair per call,
\* in call order: the assistant-tool-call entry and then the tool-result entry,
\* both with the id and the name of that call.
C6_HistoryFidelity ==
    (stepPc = "returned" /\ Len(TurnCalls) > 0 /\ Len(toolResults) = Len(TurnCalls)) =>
        LET out == stepValue.messages
            n == Len(stepMessages)
        IN  /\ stepValue.type = "text_response"
            /\ Len(out) = n + 2 * Len(TurnCalls)
            /\ SubSeq(out, 1, n) = stepMessages
            /\ \A k \in 1..Len(TurnCalls) :
                 /\ out[n + 2 * k - 1].type = "assistant_message_tool"
                 /\ out[n + 2 * k - 1].id = TurnCalls[k].id
                 /\ out[n + 2 * k - 1].toolName = TurnCalls[k].name
                 /\ out[n + 2 * k].type = "tool_message"
                 /\ out[n + 2 * k].id = TurnCalls[k].id
                 /\ out[n + 2 * k].toolName = TurnCalls[k].name

\* A round-trip of two calls over a history that was not empty.
C6_Witness ==
    /\ stepPc = "returned"
    /\ Len(TurnCalls) = 2
    /\ Len(toolResults) = 2
    /\ Len(stepMessages) > 0

\* C7: when the stream of a step held no tool call, step never yields: it
\* returns a text_response whose content is the text of the stream and whose
\* messages are the input history and one assistant-text entry with that
\* content.
C7_TextResponse ==
    (stepPc = "returned" /\ Len(TurnCalls) = 0) =>
        /\ LogPositions("tool_request", StepTurn) = {}
        /\ stepValue =
             [type |-> "text_response",
              content |-> TextOf(streamEvents),
              messages |-> Append(stepMessages,
                                  createAssistantTextMessage(TextOf(streamEvents)))]

\* step returned the text of two deltas.
C7_Witness ==
    /\ stepPc = "returned"
    /\ Len(TurnCalls) = 0
    /\ stepValue.content = <<"b", "a">>
    /\ Len(stepMessages) > 0

\* C8: run issues at most maxIterations model requests and executes at most
\* maxIterations tool batches, and it terminates.
C8_RunTerminatesWithinBudget ==
    /\ [](Len(Requests) <= maxIterations /\ Len(Batches) <= maxIterations)
    /\ <>(runPc \in {"returned", "raised"})

\* run used its whole budget of at least two turns and returned.
C8_Witness ==
    /\ runPc = "returned"
    /\ maxIterations >= 2
    /\ Len(Requests) = maxIterations
    /\ Len(Batches) = maxIterations

\* Every turn of the budget ended in a tool request and an empty content.
BudgetUsedUp ==
    \A t \in 0..(maxIterations - 1) :
        /\ LogPositions("tool_request", t) # {}
        /\ \E k \in LogPositions("step_return", t) : log[k].content = <<>>

\* C9: when every turn of the budget ended in a tool request without a final
\* answer, run does not raise: it returns the fallback text; with
\* maxIterations = 1 it has then made one model request, in forced-text mode.
C9_SoftBudget ==
    BudgetUsedUp =>
        /\ runPc \in {"loop", "returned"}
        /\ runPc = "loop" => i = maxIterations
        /\ runPc = "returned" => result = FallbackText
        /\ maxIterations = 1 =>
             Requests = <<[kind |-> "request", turn |-> 0, forced |-> TRUE]>>

\* run with maxIterations = 1 returned the fallback text after a tool batch.
C9_Witness ==
    /\ maxIterations = 1
    /\ BudgetUsedUp
    /\ runPc = "returned"
    /\ result = FallbackText
    /\ Len(Batches) = 1

WarningPositions == { k \in 1..Len(log) : log[k].kind = "tool_warning" }

\* C10: the request of turn t is in forced-text mode exactly when
\* t = maxIterations - 1; tool_warning is emitted once, right before the
\* request of that turn, in a run that reaches it, and never otherwise.
C10_ForcedTextOnLastTurn ==
    /\ \A k \in 1..Len(Requests) :
         /\ Requests[k].turn = k - 1
         /\ Requests[k].forced <=> (k - 1 = maxIterations - 1)
    /\ \A p \in WarningPositions :
         /\ p < Len(log)
         /\ log[p + 1].kind = "request"
         /\ log[p + 1].turn = maxIterations - 1
    /\ Cardinality(WarningPositions) =
         IF LogPositions("request", maxIterations - 1) # {} THEN 1 ELSE 0

\* A run of two turns reached its last turn: the first request went out
\* unforced, then the warning and the forced request.
C10_Witness ==
    /\ maxIterations = 2
    /\ Len(Requests) = 2
    /\ Cardinality(WarningPositions) = 1
    /\ ~Requests[1].forced
    /\ Requests[2].forced

C14_ReturnsTextOfToollessTurn ==
    (runPc = "returned" /\ result # FallbackText) => Len(TurnCalls) = 0

\* C15: run raises only when the stream of a turn threw: no tool failure makes
\* it raise.
C15_ToolFailuresNeverAbort ==
    runPc = "raised" => streamThrows

\* C16: what executeTools resolves with has one result per call, and result k
\* has the name of call k, in whatever order the executions settled.
C16_OneResultPerCallInOrder ==
    runPc = "resuming" =>
        /\ Len(toolResults) = Len(stepValue.calls)
        /\ \A k \in 1..Len(toolResults) :
             toolResults[k].name = stepValue.calls[k].name

\* Two tools ran, and the second settled before the first.
C16_Witness ==
    /\ runPc = "resuming"
    /\ Len(stepValue.calls) = 2
    /\ settleOrder = <<2, 1>>
    /\ stepValue.calls[1].name # stepValue.calls[2].name

PendingCalls == { k \in 1..Len(promises) : promises[k].state = "pending" }

\* C17: while run awaits a batch every call of it has been started; a call is
\* still running only while run awaits its batch (or has raised); and no model
\* request goes out and no batch is started while a call is still running.
C17_BatchBarrier ==
    /\ [](runPc = "awaitingTools" => Len(promises) = Len(stepValue.calls))
    /\ [](PendingCalls # {} => runPc \in {"awaitingTools", "raised"})
    /\ [][(Len(Requests') > Len(Requests) \/ Len(Batches') > Len(Batches))
             => PendingCalls = {}]_vars

\* In the second batch of a run two tools were running, and one has settled.
C17_Witness ==
    /\ runPc = "awaitingTools"
    /\ Len(Batches) = 2
    /\ Len(promises) = 2
    /\ Len(settleOrder) = 1
    /\ Cardinality(PendingCalls) = 1

(***************************************************************************)
(* Properties of the parser and of stream                                  *)
(***************************************************************************)
RECURSIVE ConcatContents(_)
ConcatContents(frags) ==
    IF frags = <<>> THEN <<>>
    ELSE Head(frags).content \o ConcatContents(Tail(frags))

FragIdx(line) == IF line.idx = NoIdx THEN 0 ELSE line.idx

\* The fragments of one parallel index, in arrival order.
FragmentsOf(batch, x) ==
    LET Same(l) == FragIdx(l) = x IN SelectSeq(batch, Same)

LastTruthy(vals) ==
    LET Given(v) == v # Absent
        given == SelectSeq(vals, Given)
    IN  IF given = <<>> THEN Null ELSE given[Len(given)]

\* What a batch of fragments stands for, told from each index's own fragments
\* alone: one entry per index, in ascending index order.
Canonical(batch) ==
    LET idxs == { FragIdx(batch[k]) : k \in 1..Len(batch) }
        Nth(n) == CHOOSE x \in idxs : Cardinality({ y \in idxs : y < x }) = n - 1
        Entry(x) ==
            LET fs == FragmentsOf(batch, x) IN
            [idx |-> x,
             call |-> [id |-> LastTruthy([k \in 1..Len(fs) |-> fs[k].id]),
                       name |-> LastTruthy([k \in 1..Len(fs) |-> fs[k].name]),
                       arguments |-> ConcatContents(fs)]]
    IN  [n \in 1..Cardinality(idxs) |-> Entry(Nth(n))]

\* The calls every flush of the log should have finalized, batch after batch.
RECURSIVE ExpectedCalls(_, _)
ExpectedCalls(lines, batch) ==
    IF lines = <<>> THEN <<>>
    ELSE LET l == Head(lines) IN
         IF IsFlush(l)
         THEN CallsOf(Canonical(batch)) \o ExpectedCalls(Tail(lines), <<>>)
         ELSE IF l.kind = "ToolCall"
              THEN ExpectedCalls(Tail(lines), Append(batch, l))
              ELSE ExpectedCalls(Tail(lines), batch)

\* The fragments that the most recent flush of the log closed.
RECURSIVE LastFlushedBatch(_, _, _)
LastFlushedBatch(lines, batch, last) ==
    IF lines = <<>> THEN last
    ELSE LET l == Head(lines) IN
         IF IsFlush(l) THEN LastFlushedBatch(Tail(lines), <<>>, batch)
         ELSE IF l.kind = "ToolCall"
              THEN LastFlushedBatch(Tail(lines), Append(batch, l), last)
              ELSE LastFlushedBatch(Tail(lines), batch, last)

ArgumentsOf(calls) == [k \in 1..Len(calls) |-> calls[k].arguments]

\* C1: fragment reassembly. Every finalized call's arguments string is the
\* concatenation, in arrival order, of the content of the fragments that
\* carried its parallel index in the batch its flushing finish signal closed.
C1_FragmentReassembly ==
    ArgumentsOf(finalizedToolCalls) = ArgumentsOf(ExpectedCalls(consumed, <<>>))

\* A call whose arguments arrived in two fragments has been finalized.
C1_Witness ==
    \E k \in 1..Len(finalizedToolCalls) :
        finalizedToolCalls[k].arguments = <<"{", "}">>

\* C2: deterministic ordering. The entries one finish signal flushes are in
\* ascending index order and are the same for every arrival interleaving: they
\* are what each index's own fragments stand for, and they end the finalized
\* list.
C2_DeterministicOrdering ==
    /\ \A k \in 1..(Len(sortedCalls) - 1) : sortedCalls[k].idx < sortedCalls[k + 1].idx
    /\ sortedCalls = Canonical(LastFlushedBatch(consumed, <<>>, <<>>))
    /\ Len(sortedCalls) <= Len(finalizedToolCalls)
    /\ SubSeq(finalizedToolCalls,
              Len(finalizedToolCalls) - Len(sortedCalls) + 1,
              Len(finalizedToolCalls)) = CallsOf(sortedCalls)

\* Fragments arrived for the indices 2, 0, 1 in that order and were flushed.
C2_Witness ==
    /\ Len(consumed) >= 4
    /\ \A k \in 1..3 : consumed[k].kind = "ToolCall"
    /\ <<consumed[1].idx, consumed[2].idx, consumed[3].idx>> = <<2, 0, 1>>
    /\ IsFlush(consumed[4])
    /\ Len(finalizedToolCalls) = 3

SurfacedCalls ==
    UNION { { events[k].calls[j] : j \in 1..Len(events[k].calls) } :
            k \in { n \in 1..Len(events) : events[n].type = "tool_calls" } }

\* C3: every tool call surfaced in a tool_calls event has a non-null id and a
\* non-null name.
C3_SurfacedCallsHaveIdAndName ==
    \A c \in SurfacedCalls : c.id # Null /\ c.name # Null

ToolCallsEventPositions ==
    { k \in 1..Len(events) : events[k].type = "tool_calls" }

\* C4: stream yields a tool_calls event only once the byte stream has ended, at
\* most once, as its last event, carrying the finalized list, and a stream that
\* ended has yielded one exactly when the finalized list is not empty.
C4_ToolCallsEventAtEnd ==
    /\ Cardinality(ToolCallsEventPositions) <= 1
    /\ \A k \in ToolCallsEventPositions :
          /\ streamPc = "done"
          /\ k = Len(events)
          /\ events[k].calls = finalizedToolCalls
    /\ streamPc = "done" =>
          (ToolCallsEventPositions # {} <=> Len(finalizedToolCalls) > 0)

\* A stream that yielded text and then, at its end, the tool_calls event.
C4_Witness ==
    /\ streamPc = "done"
    /\ Len(events) >= 2
    /\ events[1].type = "text"
    /\ events[Len(events)].type = "tool_calls"

(***************************************************************************)
(* Properties of request assembly                                          *)
(***************************************************************************)
\* The positions of the name entries of a wire name in the built data.
WirePositions(data, fqdn) == { k \in 1..Len(data) : data[k].fqdn = fqdn }

WarningsOf(key) == { k \in 1..Len(warnings) : warnings[k].parameter = key }

\* C18: for a registered profile the build does not fail; a parameter the
\* profile does not support has no wire entry and one parameter_warning that
\* names it and the profile; a parameter the profile supports has its wire
\* entry, followed by its value, and no warning.
C18_CapabilityFiltering ==
    (parametersData.built /\ profile \in DOMAIN modelProfiles) =>
        /\ ~parametersData.threw
        /\ \A e \in 1..Len(parameters) :
             LET key == parameters[e].key
                 fqdn == LLMParameters[key].fqdn
                 at == WirePositions(parametersData.data, fqdn)
             IN  IF fqdn \in modelProfiles[profile].params
                 THEN /\ Cardinality(at) = 1
                      /\ \A k \in at :
                           /\ k < Len(parametersData.data)
                           /\ parametersData.data[k + 1].fqdn = Absent
                           /\ parametersData.data[k + 1].value =
                                ConvertValue(LLMParameters[key].type,
                                             parameters[e].value)
                      /\ WarningsOf(key) = {}
                 ELSE /\ at = {}
                      /\ Cardinality(WarningsOf(key)) = 1
                      /\ \A k \in WarningsOf(key) : warnings[k].profile = profile

\* A request for openai-o1-mini with a parameter it does not support and one
\* it supports: one warning, one parameter on the wire.
C18_Witness ==
    /\ parametersData.built
    /\ profile = "openai-o1-mini"
    /\ Len(parameters) = 2
    /\ HasKey(parameters, "TEMPERATURE")
    /\ HasKey(parameters, "SEED")
    /\ Len(warnings) = 1
    /\ Len(parametersData.data) = 2

\* C19: for a profile that is not registered the build raises no error, emits
\* no warning, and puts every parameter and the tool list on the wire.
C19_UnknownProfileFailsSoft ==
    (parametersData.built /\ profile \notin DOMAIN modelProfiles) =>
        /\ ~parametersData.threw
        /\ warnings = <<>>
        /\ \A e \in 1..Len(parameters) :
             WirePositions(parametersData.data,
                           LLMParameters[parameters[e].key].fqdn) # {}
        /\ tools # <<>> =>
             WirePositions(parametersData.data, LLMParameters["TOOLS"].fqdn) # {}

\* The entries of a parameter map, whatever their order.
EntriesOf(params) == { params[k] : k \in 1..Len(params) }

\* C11: the parameters of a forced-text turn are those of the session with
\* TOOL_CHOICE_NONE set to true: every other parameter is there, with the
\* value the session has for it.
C11_ForcedOverridesOnlyToolChoice ==
    (requestBody.sent /\ requestBody.forced) =>
        EntriesOf(requestBody.used) =
            EntriesOf(SetParam(configured.parameters, "TOOL_CHOICE_NONE", <<"true">>))

\* C12: whatever steps went before, forced or not, the session has the profile,
\* the tools, the system message and the parameters it was configured with, and
\* a stream or step without the option is sent with those parameters.
C12_OverrideLastsOneTurn ==
    /\ Session(profile, tools, systemMessage, parameters) = configured
    /\ (requestBody.sent /\ ~requestBody.forced) =>
          /\ requestBody.used = configured.parameters
          /\ sessionForStream = configured
          /\ parametersData.data =
               buildParametersArray(configured.parameters, configured.tools,
                                    configured.profile).data

\* After a forced step, a step without the option on a session whose
\* parameters do not switch the tool choice off.
C12_Witness ==
    /\ requestBody.sent
    /\ requestBody.op = "step"
    /\ ~requestBody.forced
    /\ requestBody.afterForced
    /\ Len(configured.parameters) > 0
    /\ ~HasKey(configured.parameters, "TOOL_CHOICE_NONE")
    /\ configured.tools # <<>>

\* C20 as the specification states it: the system message is prepended unless
\* the history starts with a system message.
C20_PrependUnlessStartsWithSystem ==
    (requestBody.sent /\ ~requestBody.threw) =>
        requestBody.messages =
            IF IsSet(configured.systemMessage)
                 /\ ~StartsWithSystemMessage(requestBody.history)
            THEN <<createSystemMessage(configured.systemMessage.content)>>
                   \o requestBody.history
            ELSE requestBody.history

\* C20: the message list of a request is the configured system message followed
\* by the history when a system message is configured (and is not empty) and no
\* message of the history, at any position, is a system message; otherwise it is
\* the history.
C20_PrependUnlessHistoryHasSystem ==
    (requestBody.sent /\ ~requestBody.threw) =>
        LET h == requestBody.history
            none == \A k \in 1..Len(h) : h[k].type # "system_message"
        IN  requestBody.messages =
                IF ~configured.systemMessage.isNull
                     /\ configured.systemMessage.content # <<>> /\ none
                THEN <<[type |-> "system_message",
                        content |-> configured.systemMessage.content]>> \o h
                ELSE h

\* A request of a session with a system message, for a history whose second
\* message is a system message: nothing is prepended.
C20_Witness ==
    /\ requestBody.sent
    /\ ~requestBody.threw
    /\ IsSet(configured.systemMessage)
    /\ Len(requestBody.history) = 2
    /\ requestBody.history[2].type = "system_message"
    /\ requestBody.history[1].type = "user_message"
    /\ requestBody.messages = requestBody.history

(***************************************************************************)
(* Properties of the streams: errors, the sentinel, arrival order          *)
(***************************************************************************)
\* The lines that carry an event of their own, and the event of each.
IsDelta(line) == line.kind \in {"Content", "QuotaMetadata"}
DeltaEvent(line) ==
    IF line.kind = "Content" THEN [type |-> "text", content |-> line.content]
    ELSE [type |-> "quota"]

\* The events of the lines, in the order of the lines.
ArrivalEvents(lines) ==
    LET d == SelectSeq(lines, IsDelta) IN [k \in 1..Len(d) |-> DeltaEvent(d[k])]

IsTaskDelta(line) == line.kind \in {"Content"} \cup TaskMetadata
TaskDeltaEvent(line) ==
    IF line.kind = "Content" THEN [type |-> "Content", content |-> line.content]
    ELSE [type |-> line.kind, data |-> line]
TaskArrivalEvents(lines) ==
    LET d == SelectSeq(lines, IsTaskDelta) IN
    [k \in 1..Len(d) |-> TaskDeltaEvent(d[k])]

MalformedPositions(lines) ==
    { k \in 1..Len(lines) : lines[k].kind = "malformed" }

IsPrefix(s, t) == Len(s) <= Len(t) /\ SubSeq(t, 1, Len(s)) = s

\* C25: the chat stream and the task stream throw SSEError exactly at a
\* malformed data line, which is then the last line they took; the events they
\* have yielded are those of the lines before it, without a tool_calls event
\* even when calls were finalized; nothing happens after the throw, and events
\* once yielded are never taken back.
C25_MalformedLineAborts ==
    /\ [](/\ streamPc = "failed" <=> MalformedPositions(consumed) # {}
          /\ MalformedPositions(consumed) \subseteq {Len(consumed)}
          /\ streamPc = "failed" => events = ArrivalEvents(consumed))
    /\ [](/\ taskPc = "failed" <=> MalformedPositions(taskConsumed) # {}
          /\ MalformedPositions(taskConsumed) \subseteq {Len(taskConsumed)}
          /\ taskPc = "failed" => taskEvents = TaskArrivalEvents(taskConsumed))
    /\ [][/\ streamPc # "failed" /\ taskPc # "failed"
          /\ IsPrefix(events, events') /\ IsPrefix(taskEvents, taskEvents')]_vars

\* A chat stream yielded text, finalized a call and then threw at a malformed
\* line: the text stays, the call is never surfaced.
C25_Witness ==
    /\ streamPc = "failed"
    /\ Len(consumed) = 4
    /\ consumed[4].kind = "malformed"
    /\ Len(finalizedToolCalls) = 1
    /\ events = <<[type |-> "text", content |-> <<"a">>]>>

EndSeen == \E k \in 1..Len(consumed) : consumed[k].kind = "end"

\* C26 as the specification states it: once the sentinel line has been taken,
\* no later line yields an event or changes the accumulator or the finalized
\* list.
C26_EndSentinelEndsParsing ==
    [][(EndSeen /\ Len(consumed') > Len(consumed)) =>
          /\ toolCallsInProgress' = toolCallsInProgress
          /\ finalizedToolCalls' = finalizedToolCalls
          /\ events' \in {events, events \o ToolCallsEvent(finalizedToolCalls)}]_vars

\* C27 as the specification states it: an entry of the accumulator keeps the id
\* and the name a fragment has set, for as long as it is in the accumulator.
C27_IdAndNameRetained ==
    [][\A k \in 1..Len(toolCallsInProgress) :
         LET e == toolCallsInProgress[k] IN
         HasIdx(toolCallsInProgress', e.idx) =>
           LET f == toolCallsInProgress'[PosOf(toolCallsInProgress', e.idx)].call
           IN  /\ e.call.id # Null => f.id = e.call.id
               /\ e.call.name # Null => f.name = e.call.name]_vars

IsDeltaEvent(e) == e.type # "tool_calls"

\* C28: at every moment the text and quota events stream has yielded are those
\* of all the lines it has taken, in the order of the lines; nothing else is
\* yielded while lines are read, and the one event that may follow them when the
\* stream is over is the tool_calls event.
C28_ArrivalOrder ==
    LET deltas == SelectSeq(events, IsDeltaEvent) IN
    /\ deltas = ArrivalEvents(consumed)
    /\ \/ events = deltas
       \/ /\ streamPc = "done"
          /\ Len(events) = Len(deltas) + 1
          /\ events[Len(events)].type = "tool_calls"
          /\ SubSeq(events, 1, Len(deltas)) = deltas

\* A fragment came first, then text, then quota, then the finish signal: the
\* text and the quota events were yielded in that order, the call last.
C28_Witness ==
    /\ streamPc = "done"
    /\ Len(consumed) = 4
    /\ consumed[1].kind = "ToolCall"
    /\ consumed[2].kind = "Content"
    /\ consumed[3].kind = "QuotaMetadata"
    /\ Len(events) = 3
    /\ events[1].type = "text" /\ events[2].type = "quota"
    /\ events[3].type = "tool_calls"

(***************************************************************************)
(* Properties of error propagation in step and run                         *)
(***************************************************************************)
StreamFailsNow ==
    stepPc = "streaming" /\ evPos = Len(streamEvents) /\ streamThrows

\* C29: when the request or the stream of a turn fails, the next thing that
\* happens is that step throws and run rejects with the error of the stream;
\* the request of that turn is then the last entry of the log, one request was
\* sent per turn and no batch belongs to the failed turn; and nothing happens
\* after step has thrown: no request, no batch.
C29_StreamErrorsPropagate ==
    /\ [](stepPc = "threw" =>
            /\ runPc = "raised"
            /\ runError = streamError /\ runError \in RequestErrors \cup {SSEError}
            /\ log[Len(log)] = [kind |-> "request", turn |-> i,
                                forced |-> forceTextResponse]
            /\ Len(Requests) = i + 1
            /\ \A k \in 1..Len(Batches) : Batches[k].turn < i)
    /\ [][StreamFailsNow =>
            (stepPc' = "threw" /\ runPc' = "raised" /\ runError' = streamError
               /\ log' = log)]_vars
    /\ [][stepPc # "threw"]_vars

\* The second turn of a run yielded text and then met a malformed line, after
\* the first turn had executed a batch: run rejected with the SSEError.
C29_Witness ==
    /\ stepPc = "threw" /\ runPc = "raised"
    /\ runError = SSEError
    /\ i = 1 /\ Len(Batches) = 1
    /\ evPos > 0

(***************************************************************************)
(* Properties of the capability warnings                                   *)
(***************************************************************************)
\* C30 as the specification states it: whatever the build leaves out because
\* the registered profile does not support it, a parameter or the tool list,
\* has a parameter_warning.
C30_EveryDropIsReported ==
    (parametersData.built /\ ~parametersData.threw
       /\ profile \in DOMAIN modelProfiles) =>
        /\ \A e \in 1..Len(parameters) :
             LLMParameters[parameters[e].key].fqdn \notin modelProfiles[profile].params
                => WarningsOf(parameters[e].key) # {}
        /\ (tools # <<>>
              /\ LLMParameters["TOOLS"].fqdn \notin modelProfiles[profile].params)
                => WarningsOf("TOOLS") # {}

(***************************************************************************)
(* Properties of the transport                                             *)
(***************************************************************************)
LogOf(kind) == { k \in 1..Len(fetchLog) : fetchLog[k].kind = kind }
RequestFetches == { k \in LogOf("fetch") : fetchLog[k].path # RefreshPath }
RefreshFetches == { k \in LogOf("fetch") : fetchLog[k].path = RefreshPath }

\* C22: one call of the transport sends at most one refresh and at most two
\* requests. A refresh is sent only after the request was answered 401. When
\* the refresh succeeded there is one refresh and one retry: a second request
\* for the same path, sent after the success with the token the refresh gave,
\* which is the client's token from then on. When the retry is answered with a
\* status that is not a success, 401 included, the call has thrown an
\* APIStatusError of that status and has sent nothing more.
C22_OneRefreshOneRetry ==
    LET responses == LogOf("api_response")
        successes == LogOf("token_refresh_success")
    IN  /\ Cardinality(RefreshFetches) <= 1
        /\ Cardinality(RequestFetches) <= 2
        /\ \A k \in RefreshFetches :
              /\ k = 5
              /\ fetchLog[3].kind = "api_response" /\ fetchLog[3].status = 401
        /\ \A k \in successes :
              /\ RefreshFetches = {k - 1}
              /\ RequestFetches = {2, k + 2}
              /\ fetchLog[k + 2].path = fetchLog[2].path
              /\ fetchLog[k + 2].path = fetchPath
              /\ fetchLog[k + 2].token = fetchLog[k].token
              /\ token = fetchLog[k].token
        /\ Cardinality(RequestFetches) = 2 => successes # {}
        /\ Cardinality(responses) = 2 =>
              LET last == fetchLog[CHOOSE k \in responses : \A j \in responses : j <= k]
              IN  ~(last.status >= 200 /\ last.status <= 299) =>
                    /\ fetchPc = "threw"
                    /\ fetchError = [name |-> "APIStatusError", status |-> last.status]
                    /\ fetchLog[Len(fetchLog)].kind = "error"
                    /\ fetchLog[Len(fetchLog)].status = last.status
                    /\ Cardinality(RefreshFetches) = 1

\* The request was answered 401, the refresh gave the token t1, the retry was
\* answered 401 again: the call threw the status error of the retry.
C22_Witness ==
    /\ fetchPc = "threw"
    /\ fetchError = [name |-> "APIStatusError", status |-> 401]
    /\ Cardinality(RefreshFetches) = 1
    /\ Cardinality(RequestFetches) = 2
    /\ Cardinality(LogOf("api_response")) = 2
    /\ token = "t1"

(***************************************************************************)
(* Properties of the ParameterBuilder                                      *)
(***************************************************************************)
\* What each setter is for: the type, the range and the enumeration its
\* validation message names.
IsNumberIn(arg, low, high) ==
    /\ arg \in Numbers \ { <<"NaN">> }
    /\ low <= Tenths(arg) /\ Tenths(arg) <= high

MeetsContract(method, arg) ==
    LET rule == Validators[method] IN
    CASE rule = "range02" -> IsNumberIn(arg, 0, 20)
      [] rule = "range01" -> IsNumberIn(arg, 0, 10)
      [] rule = "positiveInteger" -> arg \in { <<"1">>, <<"3">> }
      [] rule = "integer" -> arg \in { <<"0">>, <<"1">>, <<"3">> }
      [] rule = "nonEmptyString" -> TypeOf(arg) = "string" /\ arg # <<"">>
      [] rule = "string" -> TypeOf(arg) = "string"
      [] rule = "boolean" -> arg = <<>> \/ TypeOf(arg) = "boolean"
      [] rule = "effort" -> arg \in { <<"low">>, <<"medium">>, <<"high">> }
      [] rule = "object" -> arg = <<"{}">>
      [] OTHER -> TRUE

\* C23 as the specification states it: a setter called with a value of the
\* wrong type, outside its range or outside its enumeration throws and leaves
\* the map of the builder as it was.
C23_SettersValidate ==
    (lastCall.method # "none" /\ ~MeetsContract(lastCall.method, lastCall.arg)) =>
        /\ lastCall.threw
        /\ objects[BuilderObject] = lastCall.before

\* C24 as the specification states it: the map _build returned, and the
\* parameters the session stored from it, stay what they were when _build
\* returned.
C24_BuiltMapImmutable ==
    built.ref # 0 =>
        /\ objects[built.ref] = built.map
        /\ objects[parametersRef] = built.map

(***************************************************************************)
(* Properties of the caller's history                                      *)
(***************************************************************************)
\* C21 as the specification states it: the array the caller passed to run
\* holds, at every moment, the messages it held when it was passed.
C21_CallersHistoryUntouched ==
    initialInput.isArray => callerArray = initialInput.value

(***************************************************************************)
(* Properties of the iteration budget of v2.11.0                           *)
(***************************************************************************)
\* C31 as the specification states it: when run of v2.11.0 has used up its
\* five turns with every turn requesting tools, it returns a text and raises
\* nothing.
C31_V211BudgetIsSoft ==
    (i = maxToolIterations /\ runPc # "loop") =>
        /\ runPc = "returned"
        /\ runError = NoError

(***************************************************************************)
(* Properties of the flush                                                 *)
(***************************************************************************)
\* The line the step has just handed to the parser is a finish signal that
\* flushes.
FlushedNow ==
    /\ Len(consumed') > Len(consumed)
    /\ IsFlush(consumed'[Len(consumed')])

\* Position of entry k among the entries of the accumulator by ascending index.
RankIn(map, k) ==
    Cardinality({ j \in 1..Len(map) : map[j].idx < map[k].idx }) + 1

\* C32: right after a finish signal that flushes the accumulator is empty; the
\* finalized list only grows at its end; and the flush appends every entry of
\* the accumulator exactly once, in ascending order of index.
C32_FlushInvariant ==
    [][ /\ IsPrefix(finalizedToolCalls, finalizedToolCalls')
        /\ FlushedNow =>
             /\ toolCallsInProgress' = <<>>
             /\ Len(finalizedToolCalls')
                  = Len(finalizedToolCalls) + Len(toolCallsInProgress)
             /\ \A k \in 1..Len(toolCallsInProgress) :
                  finalizedToolCalls'[Len(finalizedToolCalls)
                                        + RankIn(toolCallsInProgress, k)]
                    = toolCallsInProgress[k].call ]_vars

\* Two batches have been flushed, one call each.
C32_Witness ==
    /\ Len(consumed) = 4
    /\ IsFlush(consumed[2]) /\ IsFlush(consumed[4])
    /\ Len(finalizedToolCalls) = 2
    /\ toolCallsInProgress = <<>>

(***************************************************************************)
(* Properties of what a stream surfaces                                    *)
(***************************************************************************)
\* The reasons the claim names, and the finish signals that carry them.
ClosingReasons == {"tool_call", "tool_calls", "stop"}
Closes(line) == line.kind = "FinishMetadata" /\ line.reason \in ClosingReasons

\* A tool call is known by the batch it belongs to (how many closing finish
\* signals came before its fragments) and its index.
KeyIdx(line) == IF line.idx = NoIdx THEN 0 ELSE line.idx
BatchOf(k) == Cardinality({ j \in 1..(k - 1) : Closes(consumed[j]) })
CallKey(k) == <<BatchOf(k), KeyIdx(consumed[k])>>
FragmentPositions == { k \in 1..Len(consumed) : consumed[k].kind = "ToolCall" }
ClosedLater(k) == \E j \in (k + 1)..Len(consumed) : Closes(consumed[j])

\* The calls fragments were received for, and those of them a closing finish
\* signal follows.
ReceivedCalls == { CallKey(k) : k \in FragmentPositions }
ClosedCalls == { CallKey(k) : k \in { n \in FragmentPositions : ClosedLater(n) } }

\* Where a closed call stands among the closed calls: batch order, then index.
SlotOf(key) ==
    Cardinality({ c \in ClosedCalls :
                    c[1] < key[1] \/ (c[1] = key[1] /\ c[2] < key[2]) }) + 1

\* The argument text of the fragments of one call, in the order received.
RECURSIVE FragmentArguments(_, _)
FragmentArguments(key, k) ==
    IF k = 0 THEN <<>>
    ELSE FragmentArguments(key, k - 1)
           \o (IF k \in FragmentPositions /\ CallKey(k) = key
               THEN consumed[k].content ELSE <<>>)

\* The calls of the tool_calls events the stream has yielded.
ToolCallsEvents == { k \in 1..Len(events) : events[k].type = "tool_calls" }
CallsOfEvent ==
    IF ToolCallsEvents = {} THEN <<>>
    ELSE events[CHOOSE k \in ToolCallsEvents : TRUE].calls

\* The tool_calls event carries exactly the closed calls.
SurfacesClosedCalls ==
    /\ Cardinality(ToolCallsEvents) <= 1
    /\ Len(CallsOfEvent) = Cardinality(ClosedCalls)
    /\ \A key \in ClosedCalls :
         CallsOfEvent[SlotOf(key)].arguments = FragmentArguments(key, Len(consumed))

\* A finish signal with another reason leaves the parser as it was.
OtherFinishKeepsAccumulator ==
    (/\ Len(consumed') > Len(consumed)
     /\ consumed'[Len(consumed')].kind = "FinishMetadata"
     /\ ~Closes(consumed'[Len(consumed')])) =>
        /\ toolCallsInProgress' = toolCallsInProgress
        /\ finalizedToolCalls' = finalizedToolCalls

\* C33 as the specification states it: in every stream that has ended, the
\* tool_calls event carries a call exactly when a closing finish signal
\* followed its fragments.
C33_SurfacedIffClosedLater ==
    streamPc \in {"done", "failed"} => SurfacesClosedCalls

\* C33: in a stream read to its end without a malformed data line the
\* tool_calls event carries a call exactly when a finish signal with reason
\* tool_call, tool_calls or stop followed its fragments; before that end, and
\* in a stream that failed, there is no tool_calls event; a finish signal with
\* another reason leaves the accumulator unchanged; and a stream ends without
\* error, and without any event for them, when entries are still accumulated.
C33_SurfacedIffClosedBeforeCleanEnd ==
    /\ [](streamPc = "done" => SurfacesClosedCalls)
    /\ [](streamPc # "done" => ToolCallsEvents = {})
    /\ [][OtherFinishKeepsAccumulator]_vars

\* A stream has ended without error: one call was closed and surfaced, a
\* finish signal with reason length came, and one call is dropped.
C33_Witness ==
    /\ streamPc = "done"
    /\ ClosedCalls # {}
    /\ ReceivedCalls \ ClosedCalls # {}
    /\ toolCallsInProgress # <<>>
    /\ \E k \in 1..Len(consumed) : consumed[k] = FinishLine("length")

(***************************************************************************)
(* Properties of the history across the turns of run                       *)
(***************************************************************************)
\* run's `messages` as it starts: the input history.
InputHistory ==
    IF initialInput.isArray THEN initialInput.value
    ELSE <<createUserMessage(initialInput.value)>>

\* The step sends the request of a turn.
RequestSentNow == stepPc # "requested" /\ stepPc' = "requested"

\* The message list of the request body the session builds from a history.
SentWith(msgs) == AllMessages(systemMessage, msgs)

\* The request of a turn after the first carries the list of the request
\* before it as a prefix.
SentListsGrow ==
    (RequestSentNow /\ i > 0) => IsPrefix(SentWith(stepMessages), SentWith(stepMessages'))

\* C34 as the specification states it: the list sent with each request has
\* the list of the previous request as a prefix, and the input history is a
\* prefix of every list sent.
C34_SentListsExtendInput ==
    [][ /\ SentListsGrow
        /\ RequestSentNow => IsPrefix(InputHistory, SentWith(stepMessages')) ]_vars

\* C34: the list sent with each request has the list of the previous request
\* as a prefix; the input history is a prefix of the history every request is
\* built from, and of the list sent once the system message the session puts
\* in front of it (when it has one and the history holds none) is left out.
C34_HistoryAppendOnly ==
    [][ /\ SentListsGrow
        /\ RequestSentNow =>
             /\ IsPrefix(InputHistory, stepMessages')
             /\ SentWith(stepMessages') =
                  IF IsSet(systemMessage) /\ ~HasSystemMessage(InputHistory)
                  THEN <<createSystemMessage(systemMessage.content)>> \o stepMessages'
                  ELSE stepMessages' ]_vars

\* The request of the second turn has been sent by a session with a system
\* message: its history is the prompt and one tool exchange.
C34_Witness ==
    /\ stepPc = "requested"
    /\ i = 1
    /\ IsSet(systemMessage)
    /\ ~initialInput.isArray
    /\ Len(stepMessages) = 3

(***************************************************************************)
(* Properties of the number of requests of one send                        *)
(***************************************************************************)
\* C35 as the specification states it: one call of _fetchWithRetry sends at
\* most three HTTP requests, whatever the server answers.
C35_AtMostThreeRequests == Cardinality(LogOf("fetch")) <= 3

(***************************************************************************)
(* Properties of a failed refresh                                          *)
(***************************************************************************)
\* The refresh request of the call has just settled, and it failed: it was
\* rejected, or answered with a status outside 200..299, or without a token.
RefreshSettledNow == fetchPc = "refreshing" /\ fetchPc' # "refreshing"
RefreshFailed(response) ==
    \/ response.rejects
    \/ ~(response.status \in 200..299)
    \/ response.token = Absent

\* C36: when the refresh fails the stored token keeps its value, the call
\* throws the error of the refresh, and all it does before that is emit this
\* error: no request is sent again and token_refresh_success is not emitted.
C36_FailedRefreshChangesNothing ==
    [][ (RefreshSettledNow /\ RefreshFailed(lastResponse')) =>
          /\ token' = token
          /\ fetchPc' = "threw"
          /\ fetchError'.name =
               IF lastResponse'.rejects THEN "TypeError"
               ELSE IF ~(lastResponse'.status \in 200..299) THEN "APIStatusError"
               ELSE "APIError"
          /\ ~lastResponse'.rejects => fetchError'.status = lastResponse'.status
          /\ Len(fetchLog') = Len(fetchLog) + 1
          /\ SubSeq(fetchLog', 1, Len(fetchLog)) = fetchLog
          /\ fetchLog'[Len(fetchLog')].kind = "error"
          /\ fetchLog'[Len(fetchLog')].name = fetchError'.name
          /\ fetchLog'[Len(fetchLog')].status = fetchError'.status ]_vars

\* A first call has refreshed the token to t1; the refresh of the second call
\* was answered 200 without a token: the call threw and the token is still t1.
C36_Witness ==
    /\ fetchPc = "threw"
    /\ fetchCalls = 2
    /\ RefreshFetches # {}
    /\ Cardinality(RequestFetches) = 1
    /\ lastResponse.status = 200 /\ lastResponse.token = Absent
    /\ fetchError.name = "APIError"
    /\ token = "t1"

(***************************************************************************)
(* Properties of concurrent refreshes                                      *)
(***************************************************************************)
\* The first request of call c has just been answered 401.
Unauthorized(c) ==
    /\ inFlight[c].pc = "fetching" /\ ~inFlight[c].isRetry
    /\ inFlight'[c] # inFlight[c]
    /\ ~lastResponse'.rejects /\ lastResponse'.status = 401

\* The refresh requests a log holds.
RefreshesIn(lg) ==
    { k \in 1..Len(lg) : lg[k].kind = "fetch" /\ lg[k].path = RefreshPath }

\* The token of the refresh that completed last, t0 when none has.
LastRefreshedToken ==
    LET successes == LogOf("token_refresh_success")
    IN  IF successes = {} THEN "t0"
        ELSE fetchLog[CHOOSE k \in successes : \A j \in successes : j <= k].token

\* C37: each of two calls on one client that is answered 401 sends a refresh
\* request of its own, whether or not the other call is refreshing, and the
\* stored token is at every moment that of the refresh that completed last.
C37_RefreshNotSingleFlight ==
    /\ [](token = LastRefreshedToken)
    /\ [][ \A c \in 1..Len(inFlight) :
             Unauthorized(c) =>
               /\ inFlight'[c].pc = "refreshing"
               /\ Cardinality(RefreshesIn(fetchLog'))
                    = Cardinality(RefreshesIn(fetchLog)) + 1 ]_vars

\* Both calls were answered 401 and both refresh requests were sent before
\* either completed; the refreshes gave different tokens and the client holds
\* the one that came last.
C37_Witness ==
    LET successes == LogOf("token_refresh_success") IN
    /\ Cardinality(RefreshFetches) = 2
    /\ \E a, b \in successes :
         /\ a < b
         /\ \A k \in RefreshFetches : k < a
         /\ fetchLog[a].token # fetchLog[b].token
         /\ token = fetchLog[b].token

(***************************************************************************)
(* Properties of the chunking                                              *)
(***************************************************************************)
\* What stream makes of a text that arrives as a single chunk.
OneChunk(text) ==
    LET lines == Split(text)
        rest == IF Trim(Last(lines)) # <<>> THEN <<Last(lines)>> ELSE <<>>
        inLoop == HandleLines(NewParser, <<>>, <<>>, AllButLast(lines))
        atEnd == HandleLines(inLoop.parser, inLoop.events, inLoop.consumed, rest)
    IN  IF inLoop.thrown THEN inLoop
        ELSE IF atEnd.thrown THEN atEnd
        ELSE [atEnd EXCEPT !.events =
                  atEnd.events \o ToolCallsEvent(atEnd.parser.finalizedToolCalls)]

\* C38: however the text of a response is cut into chunks, stream ends the
\* same way (at its end or with the same error), has yielded the same events
\* in the same order, and has finalized the same tool calls as when the text
\* arrives in one piece.
C38_ChunkBoundaryIndependence ==
    streamPc \in {"done", "failed"} =>
        LET whole == OneChunk(wireText) IN
        /\ events = whole.events
        /\ finalizedToolCalls = whole.parser.finalizedToolCalls
        /\ (streamPc = "failed") = whole.thrown

\* A fragment line and a finish line without a newline after it, cut in the
\* middle of both lines: the stream has yielded the tool_calls event.
C38_Witness ==
    /\ streamPc = "done"
    /\ wireText = <<"d", "F", "\n", "d", "S">>
    /\ delivered = <<1, 3, 1>>
    /\ Len(events) = 1
    /\ events[1].type = "tool_calls"
    /\ Len(events[1].calls) = 1

(***************************************************************************)
(* Properties of the forced-text override on the wire                      *)
(***************************************************************************)
\* C39 as the specification states it: the parameters sent with a forced-text
\* turn hold the tool-choice-none entry, followed by the value true, whatever
\* the profile of the session.
C39_ForcedOverrideOnWire ==
    (requestBody.sent /\ requestBody.forced /\ ~parametersData.threw) =>
        \E k \in WirePositions(parametersData.data,
                               LLMParameters["TOOL_CHOICE_NONE"].fqdn) :
            /\ k < Len(parametersData.data)
            /\ parametersData.data[k + 1].value =
                 ConvertValue(LLMParameters["TOOL_CHOICE_NONE"].type, <<"true">>)

\* C40: given the same lines, the SSEParser of v2.11.0 and that of v2.14.0
\* return the same event for every well-formed line and hold the same
\* accumulator and finalized list; at a malformed line v2.11.0 returns null
\* and leaves its lists as they were, while v2.14.0 throws.
MalformedNow == consumed' = Append(consumed, Plain("malformed"))
SameLists == parserV211 = Parser
SameReturn ==
    consumed # <<>> =>
        IF consumed[Len(consumed)].kind = "malformed"
        THEN /\ returned.v214.thrown
             /\ ~returned.v211.thrown
             /\ returned.v211.event = NoEvent
        ELSE /\ returned.v211 = returned.v214
             /\ ~returned.v214.thrown
C40_ParsersAgree ==
    /\ [](SameLists /\ SameReturn)
    /\ [][MalformedNow => parserV211' = parserV211]_vars
C40_Witness ==
    /\ Len(consumed) = 4
    /\ consumed[2].kind = "malformed"
    /\ consumed[3].kind = "FinishMetadata"
    /\ parserV211.finalizedToolCalls # <<>>
    /\ parserV211.toolCallsInProgress # <<>>

====
